---- MODULE Spec2Model ----
(***************************************************************************)
(* The analysis generation-and-normalization pipeline of upscai-prelims:   *)
(*   lib/aiAnalysis.ts              normalizeQuestionAnalysisV1            *)
(*   lib/generateQuestionAnalysis.ts (src/unnamed/part_006)                *)
(*       safeParseJSON, sanitizeSource, analysisLooksWeak, postProcess,    *)
(*       generateQuestionAnalysis                                          *)
(*                                                                         *)
(* JavaScript values are tagged records, so that values of different       *)
(* JavaScript types can sit in one collection:                             *)
(*   [t |-> "undefined"], [t |-> "null"], [t |-> "boolean", v |-> b],      *)
(*   [t |-> "number", v, half, fin], [t |-> "string", v |-> s],            *)
(*   [t |-> "array", v |-> <<...>>], [t |-> "object", v |-> [key |-> val]] *)
(* A thrown TypeError is the value Throw.  Strings are TLA+ strings over   *)
(* ASCII; the bullet character U+2022 of the source is written "*" and the *)
(* typographic apostrophe U+2019 is written "'".                           *)
(***************************************************************************)
EXTENDS Integers, Sequences, FiniteSets, TLC

VARIABLES
  input,      \* generate: the GenerateInput of the invocation
  pc,         \* generate: "start" | "awaiting" | "returned" | "threw"
  attempt,    \* generate: the loop variable `attempt`
  calls,      \* generate: the number of openai.chat.completions.create calls issued
  responses,  \* generate: the responses received so far, in order
  analyses,   \* generate: per processed attempt, postProcess(normalize(parse)) or a throw
  verdicts,   \* generate: per processed attempt, analysisLooksWeak of its analysis
  result,     \* generate: the value returned, or the error thrown (Undef before)
  log,        \* generate: the steps taken, in order
  raw,        \* function harness: the argument of normalizeQuestionAnalysisV1
  req,        \* function harness: the GenerateInput given to postProcess
  out,        \* function harness: the last value computed
  phase,      \* function harness: "input" | "normalized" | "enforced"
  procs,      \* concurrent invocations: for each one, the locals of its call of
              \* generateQuestionAnalysis (<<>> when a single function is run)
  db,         \* route: the user's profile flag and question_analysis rows
  handlers    \* route: for each request in flight, the locals of its GET handler

vars == <<input, pc, attempt, calls, responses, analyses, verdicts, result, log,
          raw, req, out, phase, procs, db, handlers>>

-----------------------------------------------------------------------------
(* JavaScript values *)

Undef == [t |-> "undefined"]
Null == [t |-> "null"]
\* a thrown TypeError, the SyntaxError JSON.parse throws, and the rejection of
\* the external call
Throw == [t |-> "throw", error |-> "TypeError"]
SyntaxError == [t |-> "throw", error |-> "SyntaxError"]
TransportFailure == [t |-> "throw", error |-> "transport"]
Bool(b) == [t |-> "boolean", v |-> b]
\* A finite number is v + (IF half THEN 1/2 ELSE 0); a non-finite one has
\* fin = FALSE and v = 1 (Infinity), -1 (-Infinity) or 0 (NaN).  A finite number
\* that is no multiple of 1/2 is NumDec(n, f, k) = n + f / 10^k with 0 < f < 10^k
\* and f no multiple of 10.
Num(n) == [t |-> "number", v |-> n, half |-> FALSE, fin |-> TRUE]
NumHalf(n) == [t |-> "number", v |-> n, half |-> TRUE, fin |-> TRUE]
Infinity == [t |-> "number", v |-> 1, half |-> FALSE, fin |-> FALSE]
NegInfinity == [t |-> "number", v |-> -1, half |-> FALSE, fin |-> FALSE]
NaN == [t |-> "number", v |-> 0, half |-> FALSE, fin |-> FALSE]
NumDec(n, f, k) == [t |-> "number", v |-> n, half |-> FALSE, fin |-> TRUE, dec |-> <<f, k>>]
Str(s) == [t |-> "string", v |-> s]
Arr(q) == [t |-> "array", v |-> q]
Obj(f) == [t |-> "object", v |-> f]
EmptyObj == Obj([k \in {} |-> Undef])

\* o.k and o?.k: undefined unless o is an object with own property k.  (None of
\* the property names the code reads exists on the String, Number, Boolean or
\* Array prototypes; every plain access in the code is on a non-nullish value.)
Get(o, k) == IF o.t = "object" /\ k \in DOMAIN o.v THEN o.v[k] ELSE Undef

IsNullish(x) == x.t \in {"undefined", "null"}
\* a ?? b
Coalesce(a, b) == IF IsNullish(a) THEN b ELSE a

\* ToBoolean
Truthy(x) ==
  CASE x.t \in {"undefined", "null"} -> FALSE
    [] x.t = "boolean" -> x.v
    [] x.t = "number" -> IF x.fin THEN (x.v # 0 \/ x.half \/ "dec" \in DOMAIN x) ELSE x.v # 0
    [] x.t = "string" -> x.v # ""
    [] OTHER -> TRUE

\* a || b
OrElse(a, b) == IF Truthy(a) THEN a ELSE b

\* Number.isFinite on a number
IsFinite(x) == x.t = "number" /\ x.fin

RECURSIVE Pow10(_)
Pow10(k) == IF k = 0 THEN 1 ELSE 10 * Pow10(k - 1)

\* the decimal places of a finite number, and the number times 10^k for a k not
\* below them
Places(x) == IF "dec" \in DOMAIN x THEN x.dec[2] ELSE IF x.half THEN 1 ELSE 0

ScaledTo(x, k) ==
  x.v * Pow10(k) + (IF "dec" \in DOMAIN x THEN x.dec[1] * Pow10(k - x.dec[2])
                    ELSE IF x.half THEN 5 * Pow10(k - 1) ELSE 0)

\* whether a finite number is an integer
IsInteger(x) == x.fin /\ Places(x) = 0

\* a < b on finite numbers
NumLess(a, b) ==
  IF Places(a) >= Places(b) THEN ScaledTo(a, Places(a)) < ScaledTo(b, Places(a))
  ELSE ScaledTo(a, Places(b)) < ScaledTo(b, Places(b))

\* Math.max / Math.min on finite numbers
MathMax(a, b) == IF NumLess(a, b) THEN b ELSE a
MathMin(a, b) == IF NumLess(b, a) THEN b ELSE a

-----------------------------------------------------------------------------
(* Strings *)

Bullet == "*"

Slice(s, i, j) ==
  IF i > Len(s) \/ j < i THEN "" ELSE SubSeq(s, i, IF j > Len(s) THEN Len(s) ELSE j)

CharAt(s, i) == IF i >= 1 /\ i <= Len(s) THEN SubSeq(s, i, i) ELSE ""

Chars(s) == {SubSeq(s, i, i) : i \in 1..Len(s)}

\* the white space of \s and of trim() within ASCII: space, tab, line feed,
\* vertical tab (U+000B), form feed, carriage return
SpaceChars == {" ", "\t", "\n", "", "\f", "\r"}
IsSpace(c) == c \in SpaceChars

UpperChars == "ABCDEFGHIJKLMNOPQRSTUVWXYZ"
LowerChars == "abcdefghijklmnopqrstuvwxyz"
WordChars == Chars(UpperChars) \cup Chars(LowerChars) \cup Chars("0123456789_")
IsWordChar(c) == c \in WordChars

LowerOf == [c \in Chars(UpperChars) |->
              LET i == CHOOSE j \in 1..26 : SubSeq(UpperChars, j, j) = c
              IN SubSeq(LowerChars, i, i)]

RECURSIVE ToLower(_)
\* String.prototype.toLowerCase (the string is halved to keep the recursion shallow)
ToLower(s) ==
  IF s = "" THEN ""
  ELSE IF Len(s) = 1 THEN (IF s \in DOMAIN LowerOf THEN LowerOf[s] ELSE s)
  ELSE ToLower(SubSeq(s, 1, Len(s) \div 2)) \o ToLower(SubSeq(s, Len(s) \div 2 + 1, Len(s)))

\* s without its longest prefix and its longest suffix of characters of D
StripBoth(s, D) ==
  IF \A i \in 1..Len(s) : CharAt(s, i) \in D THEN ""
  ELSE LET a == CHOOSE i \in 1..Len(s) :
                  CharAt(s, i) \notin D /\ \A j \in 1..(i - 1) : CharAt(s, j) \in D
           b == CHOOSE i \in 1..Len(s) :
                  CharAt(s, i) \notin D /\ \A j \in (i + 1)..Len(s) : CharAt(s, j) \in D
       IN SubSeq(s, a, b)

\* String.prototype.trim
Trim(s) == StripBoth(s, SpaceChars)

\* String.prototype.includes
Includes(s, p) == \E i \in 1..(Len(s) - Len(p) + 1) : SubSeq(s, i, i + Len(p) - 1) = p

\* String.prototype.startsWith
StartsWith(s, p) == Slice(s, 1, Len(p)) = p

\* the number of whitespace characters of s from position i on
SpaceRun(s, i) ==
  (CHOOSE e \in i..(Len(s) + 1) :
     ~IsSpace(CharAt(s, e)) /\ \A j \in i..(e - 1) : IsSpace(CharAt(s, j))) - i

\* \b between positions i-1 and i of s
WordBoundary(s, i) == IsWordChar(CharAt(s, i - 1)) # IsWordChar(CharAt(s, i))

\* The regular expressions of the source, each as the length of its match at
\* position i of s (0: no match there).
MatchLen(pat, s, i) ==
  CASE pat = "qq" ->                       \* /\?\?/
         IF Slice(s, i, i + 1) = "??" THEN 2 ELSE 0
    [] pat = "spaces" ->                   \* /\s+/
         SpaceRun(s, i)
    [] pat = "spaces2" ->                  \* /\s{2,}/
         IF SpaceRun(s, i) >= 2 THEN SpaceRun(s, i) ELSE 0
    [] pat = "bullets" ->                  \* /\s•\s•/
         IF IsSpace(CharAt(s, i)) /\ CharAt(s, i + 1) = Bullet
            /\ IsSpace(CharAt(s, i + 2)) /\ CharAt(s, i + 3) = Bullet
         THEN 4 ELSE 0
    [] pat \in {"class", "subject"} ->     \* /\bClass\s*\?\?\b/i, /\bSubject\s*\?\?\b/i
         LET w == Len(pat)
             e == i + w + SpaceRun(s, i + w)
         IN IF WordBoundary(s, i) /\ ToLower(Slice(s, i, i + w - 1)) = pat
               /\ Slice(s, e, e + 1) = "??" /\ WordBoundary(s, e + 2)
            THEN e + 2 - i ELSE 0
    [] pat = "chapter/section" ->          \* /\bChapter\/Section\b/i
         LET w == Len(pat)
         IN IF WordBoundary(s, i) /\ ToLower(Slice(s, i, i + w - 1)) = pat
               /\ WordBoundary(s, i + w)
            THEN w ELSE 0

RECURSIVE ReplaceFrom(_, _, _, _)
\* len[j] is the length of the match at j.  One step per match: the text up to
\* the leftmost match from i on is kept, the match replaced, the scan resumed
\* behind it.
ReplaceFrom(len, rep, s, i) ==
  IF \A j \in i..Len(s) : len[j] = 0 THEN Slice(s, i, Len(s))
  ELSE LET m == CHOOSE j \in i..Len(s) : len[j] > 0 /\ \A k \in i..(j - 1) : len[k] = 0
       IN Slice(s, i, m - 1) \o rep \o ReplaceFrom(len, rep, s, m + len[m])

\* s.replace(/pat/g, rep): leftmost matches, not overlapping
ReplaceAll(pat, rep, s) == ReplaceFrom([j \in 1..Len(s) |-> MatchLen(pat, s, j)], rep, s, 1)

\* s.replace(/^[•\s]+/, "").replace(/[•\s]+$/, "")
StripBullets(s) == StripBoth(s, SpaceChars \cup {Bullet})

\* the digit characters of the radices 2, 8, 10 and 16, in lower case
Digits == "0123456789abcdef"

\* whether s is a non-empty run of digits of the radix
IsDigitsOf(s, radix) ==
  s # "" /\ \A i \in 1..Len(s) :
              \E d \in 1..radix : ToLower(SubSeq(s, i, i)) = SubSeq(Digits, d, d)

IsDigits(s) == IsDigitsOf(s, 10)

DigitValue(c) == (CHOOSE d \in 1..16 : SubSeq(Digits, d, d) = ToLower(c)) - 1

RECURSIVE DigitsValueOf(_, _)
DigitsValueOf(s, radix) ==
  IF s = "" THEN 0
  ELSE radix * DigitsValueOf(SubSeq(s, 1, Len(s) - 1), radix)
       + DigitValue(SubSeq(s, Len(s), Len(s)))

DigitsValue(s) == DigitsValueOf(s, 10)

\* the first position of s that holds a character of D, or 0
FirstOf(s, D) ==
  IF \E i \in 1..Len(s) : SubSeq(s, i, i) \in D
  THEN CHOOSE i \in 1..Len(s) :
         SubSeq(s, i, i) \in D /\ \A j \in 1..(i - 1) : SubSeq(s, j, j) \notin D
  ELSE 0

\* a decimal literal without its sign: mantissa, and exponent part when it has
\* one
MantissaOf(u) ==
  IF FirstOf(u, {"e", "E"}) = 0 THEN u ELSE Slice(u, 1, FirstOf(u, {"e", "E"}) - 1)

HasExponent(u) == FirstOf(u, {"e", "E"}) # 0

ExponentOf(u) == Slice(u, FirstOf(u, {"e", "E"}) + 1, Len(u))

\* the digits of a mantissa before and after its point
IntDigits(m) == IF FirstOf(m, {"."}) = 0 THEN m ELSE Slice(m, 1, FirstOf(m, {"."}) - 1)

FracDigits(m) == IF FirstOf(m, {"."}) = 0 THEN "" ELSE Slice(m, FirstOf(m, {"."}) + 1, Len(m))

Unsigned(e) == IF StartsWith(e, "+") \/ StartsWith(e, "-") THEN Slice(e, 2, Len(e)) ELSE e

\* StrUnsignedDecimalLiteral without Infinity: digits, digits "." digits?,
\* "." digits, each with an optional exponent part
IsDecimalLiteral(u) ==
  /\ IntDigits(MantissaOf(u)) = "" \/ IsDigits(IntDigits(MantissaOf(u)))
  /\ FracDigits(MantissaOf(u)) = "" \/ IsDigits(FracDigits(MantissaOf(u)))
  /\ IntDigits(MantissaOf(u)) \o FracDigits(MantissaOf(u)) # ""
  /\ HasExponent(u) => IsDigits(Unsigned(ExponentOf(u)))

ExponentValue(u) ==
  IF ~HasExponent(u) THEN 0
  ELSE IF StartsWith(ExponentOf(u), "-") THEN 0 - DigitsValue(Unsigned(ExponentOf(u)))
  ELSE DigitsValue(Unsigned(ExponentOf(u)))

RECURSIVE Reduced(_, _, _)
\* the number n + f / 10^k, 0 <= f < 10^k
Reduced(n, f, k) ==
  IF k = 0 \/ f = 0 THEN Num(n)
  ELSE IF f % 10 = 0 THEN Reduced(n, f \div 10, k - 1)
  ELSE IF k = 1 /\ f = 5 THEN NumHalf(n)
  ELSE NumDec(n, f, k)

\* the number m * 10^e for a natural m
ScaledNumber(m, e) ==
  IF e >= 0 THEN Num(m * Pow10(e))
  ELSE Reduced(m \div Pow10(0 - e), m % Pow10(0 - e), 0 - e)

\* -x for a finite number (the model has one zero)
Negated(x) ==
  IF Places(x) = 0 THEN Num(0 - x.v)
  ELSE IF x.half THEN NumHalf(0 - x.v - 1)
  ELSE NumDec(0 - x.v - 1, Pow10(x.dec[2]) - x.dec[1], x.dec[2])

\* the value of a decimal literal without its sign
DecimalValue(u) ==
  ScaledNumber(DigitsValue(IntDigits(MantissaOf(u)) \o FracDigits(MantissaOf(u))),
               ExponentValue(u) - Len(FracDigits(MantissaOf(u))))

\* the radix of a literal 0x.., 0o.., 0b.., or 0 when it has no such prefix
RadixOf(t) ==
  CASE ToLower(Slice(t, 1, 2)) = "0x" -> 16
    [] ToLower(Slice(t, 1, 2)) = "0o" -> 8
    [] ToLower(Slice(t, 1, 2)) = "0b" -> 2
    [] OTHER -> 0

\* StringToNumber of trimmed text: blank is 0; then a hexadecimal, octal or
\* binary literal, an optionally signed Infinity, an optionally signed decimal
\* literal; any other text is NaN.  Values are exact, which is what the code
\* computes for the texts whose digits a double holds exactly.
NumberOfTrimmed(t) ==
  IF t = "" THEN Num(0)
  ELSE IF RadixOf(t) # 0
  THEN (IF IsDigitsOf(Slice(t, 3, Len(t)), RadixOf(t))
        THEN Num(DigitsValueOf(Slice(t, 3, Len(t)), RadixOf(t))) ELSE NaN)
  ELSE IF Unsigned(t) = "Infinity" THEN (IF StartsWith(t, "-") THEN NegInfinity ELSE Infinity)
  ELSE IF ~IsDecimalLiteral(Unsigned(t)) THEN NaN
  ELSE IF StartsWith(t, "-") THEN Negated(DecimalValue(Unsigned(t)))
  ELSE DecimalValue(Unsigned(t))

\* Number(s) for a string
NumberOfString(s) == NumberOfTrimmed(Trim(s))

RECURSIVE NatToStr(_)
NatToStr(n) ==
  IF n < 10 THEN SubSeq("0123456789", n + 1, n + 1)
  ELSE NatToStr(n \div 10) \o SubSeq("0123456789", (n % 10) + 1, (n % 10) + 1)

RECURSIVE Zeros(_)
Zeros(n) == IF n <= 0 THEN "" ELSE "0" \o Zeros(n - 1)

DigitOf(c) == CHOOSE d \in 0..9 : SubSeq("0123456789", d + 1, d + 1) = c

RECURSIVE NinesComplement(_)
NinesComplement(s) ==
  IF s = "" THEN ""
  ELSE NatToStr(9 - DigitOf(SubSeq(s, 1, 1))) \o NinesComplement(SubSeq(s, 2, Len(s)))

\* the k digits of 10^k - f for the k digits s of f, the last of them not 0
TensComplement(s) ==
  NinesComplement(SubSeq(s, 1, Len(s) - 1)) \o NatToStr(10 - DigitOf(SubSeq(s, Len(s), Len(s))))

RECURSIVE LeadingZeros(_)
LeadingZeros(s) ==
  IF s # "" /\ SubSeq(s, 1, 1) = "0" THEN 1 + LeadingZeros(SubSeq(s, 2, Len(s))) ELSE 0

\* i + 0.0..0digits, with the given number of zeros after the point, as
\* Number::toString writes it: a value below 10^-6 in exponent form.  (An
\* integer part of 10^21 or more, which Number::toString writes in exponent
\* form too, is beyond the integers of the model.)
FractionToStr(i, zeros, digits) ==
  IF i = 0 /\ zeros >= 6
  THEN SubSeq(digits, 1, 1)
       \o (IF Len(digits) > 1 THEN "." \o SubSeq(digits, 2, Len(digits)) ELSE "")
       \o "e-" \o NatToStr(zeros + 1)
  ELSE NatToStr(i) \o "." \o Zeros(zeros) \o digits

\* i + 0.frac for the digits frac after the point
FractionOfDigits(i, frac) ==
  FractionToStr(i, LeadingZeros(frac), SubSeq(frac, LeadingZeros(frac) + 1, Len(frac)))

\* Number::toString of the numbers of the model
NumToStr(x) ==
  IF ~x.fin THEN (IF x.v = 0 THEN "NaN" ELSE IF x.v > 0 THEN "Infinity" ELSE "-Infinity")
  ELSE IF "dec" \in DOMAIN x
  THEN (IF x.v < 0
        THEN "-" \o FractionOfDigits(-x.v - 1,
                      TensComplement(Zeros(x.dec[2] - Len(NatToStr(x.dec[1]))) \o NatToStr(x.dec[1])))
        ELSE FractionToStr(x.v, x.dec[2] - Len(NatToStr(x.dec[1])), NatToStr(x.dec[1])))
  ELSE IF ~x.half THEN (IF x.v < 0 THEN "-" \o NatToStr(-x.v) ELSE NatToStr(x.v))
  ELSE IF x.v < 0 THEN "-" \o NatToStr(-x.v - 1) \o ".5" ELSE NatToStr(x.v) \o ".5"

RECURSIVE ToStringJS(_)
\* String(x): Str(..) or Throw.  An object of JSON.parse carries no callable own
\* property, so an own "toString" hides Object.prototype.toString, valueOf
\* (own or inherited) yields no primitive, and OrdinaryToPrimitive throws.
ToStringJS(x) ==
  CASE x.t = "undefined" -> Str("undefined")
    [] x.t = "null" -> Str("null")
    [] x.t = "boolean" -> Str(IF x.v THEN "true" ELSE "false")
    [] x.t = "number" -> Str(NumToStr(x))
    [] x.t = "string" -> x
    [] x.t = "object" ->
         IF "toString" \in DOMAIN x.v THEN Throw ELSE Str("[object Object]")
    [] x.t = "array" ->                    \* Array.prototype.join(",")
         IF x.v = <<>> THEN Str("")
         ELSE LET h == IF IsNullish(Head(x.v)) THEN Str("") ELSE ToStringJS(Head(x.v))
                  r == ToStringJS(Arr(Tail(x.v)))
              IN IF h = Throw \/ r = Throw THEN Throw
                 ELSE IF Len(x.v) = 1 THEN h ELSE Str(h.v \o "," \o r.v)

-----------------------------------------------------------------------------
(* lib/aiAnalysis.ts *)

\* q.map(F) for a sequence q is written [i \in 1..Len(q) |-> F(q[i])].  Where
\* the code binds an intermediate result to a const and reads it several times,
\* the model passes it to an operator as an argument.

asString(v, fallback) == IF v.t = "string" THEN v ELSE Str(fallback)

asNumber(v, fallback) == IF v.t = "number" /\ v.fin THEN v ELSE fallback

asArray(v) == IF v.t = "array" THEN v.v ELSE <<>>

clamp(n, min, max) == MathMin(max, MathMax(min, n))

ALLOWED_SOURCES ==
  {"NCERT", "Tamil Nadu Board", "Standard book", "PIB", "Govt website",
   "International org", "The Hindu", "Indian Express", "Other"}

\* lines 75-86 on s = String(n ?? "").trim()
allowedOrOther(s) == IF s \in ALLOWED_SOURCES THEN Str(s) ELSE Str("Other")

\* s0 is String(n ?? "") or the TypeError it threw
sourceNameOf(s0) == IF s0 = Throw THEN Throw ELSE allowedOrOther(Trim(s0.v))

\* Str(name), or Throw when String(n) throws
normalizeSourceName(n) == sourceNameOf(ToStringJS(Coalesce(n, Str(""))))

\* lines 91-101 on s = String(p ?? "").trim()
cleanedPointer(s) ==
  IF s = "" THEN Str("General reference")
  ELSE Str(StripBullets(Trim(
         ReplaceAll("bullets", " " \o Bullet \o " ",
           ReplaceAll("spaces2", " ",
             ReplaceAll("chapter/section", "Chapter/Section",
               ReplaceAll("subject", "",
                 ReplaceAll("class", "", s))))))))

pointerOf(s0) == IF s0 = Throw THEN Throw ELSE cleanedPointer(Trim(s0.v))

\* Str(pointer), or Throw when String(p) throws
normalizePointer(p) == pointerOf(ToStringJS(Coalesce(p, Str(""))))

\* StringList without its .filter(Boolean)
StringListUnfiltered(v) == Arr([i \in 1..Len(asArray(v)) |-> asString(asArray(v)[i], "")])

\* .map((x) => asString(x)).filter(Boolean) on asArray(v)
StringList(v) ==
  Arr(SelectSeq([i \in 1..Len(asArray(v)) |-> asString(asArray(v)[i], "")], Truthy))

\* lines 138-145, given the source's name and pointer (or Throw)
factOf(f, name, pointer, url, example) ==
  IF name = Throw \/ pointer = Throw THEN Throw
  ELSE Obj([fact |-> Str(Trim(asString(Get(f, "fact"), "").v)),
            example |-> IF example.t = "string" /\ Len(Trim(example.v)) > 0
                        THEN Str(Trim(example.v)) ELSE Undef,
            source |-> Obj([name |-> name,
                            pointer |-> pointer,
                            url |-> IF url.t = "string" THEN url ELSE Undef])])

\* lines 131-136 on sourceObj = f?.source ?? {}
factWithSource(f, sourceObj) ==
  factOf(f, normalizeSourceName(Get(sourceObj, "name")),
         normalizePointer(Get(sourceObj, "pointer")),
         Get(sourceObj, "url"), Get(f, "example"))

\* the callback of asArray(s?.facts).map at lines 130-146: a Fact, or Throw
normalizeFact(f) == factWithSource(f, Coalesce(Get(f, "source"), EmptyObj))

\* a filter that keeps every fact
factKept(x) == TRUE

FactHasText(x) == Len(Get(x, "fact").v) > 0

\* a verdict that passes any string through
verdictAnyString(verdictRaw) == verdictRaw

\* lines 149-160: the statement's verdict
verdictOf(verdictRaw) ==
  IF verdictRaw.v \in {"correct", "incorrect", "unknown"} THEN verdictRaw ELSE Str("unknown")

\* the id taken from the position whatever the raw id
idByPosition(sid, idx) == Num(idx + 1)

\* lines 158-160: the statement's id, idx 0-based
idOf(sid, idx) ==
  LET idCandidate == IF sid.t = "number" /\ sid.fin THEN sid ELSE NaN
  IN IF IsFinite(idCandidate) /\ NumLess(Num(0), idCandidate) THEN idCandidate
     ELSE Num(idx + 1)

\* lines 147-166, given the mapped facts
statementOf(s, idx, mapped) ==
  IF \E i \in 1..Len(mapped) : mapped[i] = Throw THEN Throw
  ELSE Obj([id |-> idOf(Get(s, "id"), idx),
            verdict |-> verdictOf(asString(Get(s, "verdict"), "unknown")),
            facts |-> Arr(SelectSeq(mapped, FactHasText))])

\* the callback of asArray(obj.statements).map at lines 128-167, idx 0-based:
\* a StatementBlock, or Throw
normalizeStatement(s, idx) ==
  statementOf(s, idx, [i \in 1..Len(asArray(Get(s, "facts"))) |->
                         normalizeFact(asArray(Get(s, "facts"))[i])])

\* a topic brief read from an object only
topicBriefObjectOnly(tb) ==
  Obj([title |-> IF tb.t = "object" THEN asString(Get(tb, "title"), "Topic Brief")
                 ELSE Str("Topic Brief"),
       bullets |-> IF tb.t = "object" THEN StringList(Get(tb, "bullets")) ELSE Arr(<<>>)])

\* a topic brief whose title has no default
topicBriefNoDefault(tb) ==
  Obj([title |-> IF tb.t = "object" THEN asString(Get(tb, "title"), "") ELSE Str(""),
       bullets |-> IF tb.t = "object" THEN StringList(Get(tb, "bullets"))
                   ELSE IF tb.t = "array" THEN StringList(tb)
                   ELSE IF tb.t = "string" THEN Arr(SelectSeq(<<tb>>, Truthy))
                   ELSE Arr(<<>>)])

\* lines 111-124
topicBriefOf(tb) ==
  Obj([title |-> IF tb.t = "object" THEN asString(Get(tb, "title"), "Topic Brief")
                 ELSE Str("Topic Brief"),
       bullets |-> IF tb.t = "object" THEN StringList(Get(tb, "bullets"))
                   ELSE IF tb.t = "array" THEN StringList(tb)
                   ELSE IF tb.t = "string" THEN Arr(SelectSeq(<<tb>>, Truthy))
                   ELSE Arr(<<>>)])

\* lines 174-180
levelOf(difficultyLevelRaw) ==
  IF difficultyLevelRaw.v \in {"easy", "moderate", "hard"} THEN difficultyLevelRaw
  ELSE Str("moderate")

\* lines 171-199 on st = obj.strategy ?? {} and diff = st.difficulty ?? {}
strategyOf(st, diff) ==
  Obj([difficulty |-> Obj([level |-> levelOf(asString(Get(diff, "level"), "moderate")),
                           why |-> StringList(Get(diff, "why"))]),
       exam_strategy |-> StringList(Get(st, "exam_strategy")),
       logical_deduction |-> StringList(Get(st, "logical_deduction")),
       ai_verdict |-> Obj([
         recommendation |->
           IF asString(Get(Get(st, "ai_verdict"), "recommendation"), "attempt").v = "skip"
           THEN Str("skip") ELSE Str("attempt"),
         rationale |-> asString(Get(Get(st, "ai_verdict"), "rationale"), ""),
         confidence |->
           clamp(asNumber(Get(Get(st, "ai_verdict"), "confidence"), Num(60)),
                 Num(0), Num(100))])])

\* lines 201-209, given the mapped statements
analysisOf(obj, statements, st) ==
  IF \E i \in 1..Len(statements) : statements[i] = Throw THEN Throw
  ELSE Obj([correct_answer |-> asString(Get(obj, "correct_answer"), ""),
            topic_brief |-> topicBriefOf(Get(obj, "topic_brief")),
            statements |-> Arr([i \in 1..Len(statements) |-> statements[i]]),
            strategy |-> strategyOf(st, Coalesce(Get(st, "difficulty"), EmptyObj))])

\* lines 109-209 on obj = raw ?? {}
normalizeObject(obj) ==
  analysisOf(obj,
             [i \in 1..Len(asArray(Get(obj, "statements"))) |->
                normalizeStatement(asArray(Get(obj, "statements"))[i], i - 1)],
             Coalesce(Get(obj, "strategy"), EmptyObj))

\* normalizeQuestionAnalysisV1: a QuestionAnalysisV1, or Throw
normalizeQuestionAnalysisV1(rawv) == normalizeObject(Coalesce(rawv, EmptyObj))

-----------------------------------------------------------------------------
(* lib/generateQuestionAnalysis.ts: source classifier *)

\* String(x) of a value whose String() cannot throw (every value postProcess and
\* sanitizeSource meet comes out of normalizeQuestionAnalysisV1)
StringOf(x) == ToStringJS(x).v

cleanPointer(pointer) ==
  Trim(ReplaceAll("bullets", " " \o Bullet \o " ",
         ReplaceAll("spaces", " ",
           ReplaceAll("qq", "", StringOf(OrElse(pointer, Str("")))))))

govtHints ==
  {"ministry", "department", "government of india", "gazette", "notification",
   "circular", "guidelines", "framework", "rules", "act", "bill", "ordinance",
   "commission", "finance commission", "report", "scheme", "yojana", "mission",
   "portal", "website", "press note"}

intlHints ==
  {"unfccc", "paris agreement", "kyoto", "cop", "ipcc", "iea", "undp", "unep",
   "who", "world bank", "imf", "un", "unesco", "fao", "oecd", "wto", "iucn",
   "united nations"}

\* the international cluster tried before the government cluster
inferIntlBeforeGovt(t) ==
  IF Includes(t, "pib") \/ Includes(t, "press information bureau")
     \/ Includes(t, "press release") THEN "PIB"
  ELSE IF \E k \in intlHints : Includes(t, k) THEN "International org"
  ELSE IF \E k \in govtHints : Includes(t, k) THEN "Govt website"
  ELSE IF Includes(t, "the hindu") THEN "The Hindu"
  ELSE IF Includes(t, "indian express") THEN "Indian Express"
  ELSE "Standard book"

\* lines 55-113 on t = `${questionText} ${factText}`.toLowerCase()
inferFromLowered(t) ==
  IF Includes(t, "pib") \/ Includes(t, "press information bureau")
     \/ Includes(t, "press release") THEN "PIB"
  ELSE IF \E k \in govtHints : Includes(t, k) THEN "Govt website"
  ELSE IF \E k \in intlHints : Includes(t, k) THEN "International org"
  ELSE IF Includes(t, "the hindu") THEN "The Hindu"
  ELSE IF Includes(t, "indian express") THEN "Indian Express"
  ELSE "Standard book"

\* an inference whose default is "Other"
inferOtherByDefault(questionText, factText) ==
  IF inferFromLowered(ToLower(questionText \o " " \o factText)) = "Standard book" THEN "Other"
  ELSE inferFromLowered(ToLower(questionText \o " " \o factText))

inferSourceFromText(questionText, factText) ==
  inferFromLowered(ToLower(questionText \o " " \o factText))

\* lines 131-136, on the cleaned pointer
pointerTooGeneric(pointer) ==
  \/ pointer = ""
  \/ Len(pointer) < 8
  \/ Includes(ToLower(pointer), "general reference")
  \/ Includes(ToLower(pointer), "chapter on")
  \/ Includes(ToLower(pointer), "section on")

\* no pointer synthesized
noDefaultPointer(name) == ""

\* lines 143-153
defaultPointer(name) ==
  CASE name = "NCERT" -> "NCERT " \o Bullet \o " Textbook reference"
    [] name = "Tamil Nadu Board" -> "Tamil Nadu Board " \o Bullet \o " Textbook reference"
    [] name = "PIB" -> "PIB " \o Bullet \o " Release/Article"
    [] name = "Govt website" -> "Govt website " \o Bullet \o " Official page/document"
    [] name = "International org" ->
         "International organisation " \o Bullet \o " Official document/page"
    [] name = "The Hindu" -> "The Hindu " \o Bullet \o " Article"
    [] name = "Indian Express" -> "Indian Express " \o Bullet \o " Article"
    [] name = "Standard book" -> "Standard book " \o Bullet \o " Reference"
    [] OTHER -> "General reference"

linkable(name) ==
  name \in {"PIB", "Govt website", "International org", "The Hindu", "Indian Express"}

\* lines 127-128
urlOf(u) == IF u.t = "string" /\ StartsWith(u.v, "http") THEN u ELSE Undef

\* lines 143-163, given the resolved name
sourceRef(name, pointer, generic, url) ==
  Obj([name |-> Str(name),
       pointer |-> Str(IF pointer = "" \/ generic THEN defaultPointer(name) ELSE pointer),
       url |-> IF linkable(name) THEN url ELSE Undef])

\* lines 138-140: whether the raw name is dropped and the bucket inferred
reinfersOnGenericOnly(name, generic) == generic

\* the bucket inferred for every source
reinfersAlways(name, generic) == TRUE

reinfers(name, generic) == name = "Other" \/ generic

\* lines 138-163, given whether the pointer is too generic
resolveSource(name, pointer, generic, url, questionText, factText) ==
  sourceRef(IF reinfers(name, generic) THEN inferSourceFromText(questionText, factText)
            ELSE name,
            pointer, generic, url)

\* lines 122-163, given rawName and the cleaned pointer
classifySource(rawName, pointer, url, questionText, factText) ==
  resolveSource(IF rawName \in ALLOWED_SOURCES THEN rawName ELSE "Other",
                pointer, pointerTooGeneric(pointer), url, questionText, factText)

\* lines 121-163, given String(src?.name || "Other") and String(src?.pointer || ""),
\* each a string or the TypeError it threw
classifyStrings(nameString, pointerString, url, questionText, factText) ==
  IF nameString = Throw \/ pointerString = Throw THEN Throw
  ELSE classifySource(Trim(nameString.v), cleanPointer(pointerString), url,
                      questionText, factText)

\* a SourceRef, or Throw when String() throws on the name or the pointer
sanitizeSource(src, questionText, factText) ==
  classifyStrings(ToStringJS(OrElse(Get(src, "name"), Str("Other"))),
                  ToStringJS(OrElse(Get(src, "pointer"), Str(""))),
                  urlOf(Get(src, "url")), questionText, factText)

-----------------------------------------------------------------------------
(* lib/generateQuestionAnalysis.ts: quality gate *)

RECURSIVE Join(_, _)
\* q.join(sep) for a sequence q of strings
Join(q, sep) ==
  IF q = <<>> THEN ""
  ELSE IF Len(q) = 1 THEN q[1]
  ELSE q[1] \o sep \o Join(Tail(q), sep)

\* no bullets taken as generic
bulletsNeverGeneric(bullets) == FALSE

looksGenericTopicBullets(bullets) ==
  LET joined == ToLower(Join([i \in 1..Len(bullets) |-> bullets[i].v], " | "))
  IN \E p \in {"core concept", "key definition", "where upsc hides confusion",
               "what to recall vs what to deduce", "general reference"} :
       Includes(joined, p)

looksGenericStatementFacts(facts) ==
  LET joined == Join([i \in 1..Len(facts) |-> ToLower(Get(facts[i], "fact").v)], " | ")
  IN \E p \in {"matches the key concept", "other options contradict", "standard framing",
               "general reference", "directly matches the fact asked"} :
       Includes(joined, p)

\* x?.length ?? 0 for an array or a string
LengthOr0(x) ==
  IF x.t = "array" THEN Len(x.v) ELSE IF x.t = "string" THEN Len(x.v) ELSE 0

analysisLooksWeak(a) ==
  LET tb == Coalesce(Get(Get(a, "topic_brief"), "bullets"), Arr(<<>>)).v
      st == Coalesce(Get(a, "statements"), Arr(<<>>)).v
      hasGoodStatement ==
        \E i \in 1..Len(st) :
          LET facts == Coalesce(Get(st[i], "facts"), Arr(<<>>)).v
          IN Len(facts) >= 2 /\ ~looksGenericStatementFacts(facts)
      strategy == Get(a, "strategy")
      rationale == Get(Get(strategy, "ai_verdict"), "rationale")
  IN \/ Len(tb) < 2
     \/ looksGenericTopicBullets(tb)
     \/ Len(st) = 0
     \/ ~hasGoodStatement
     \/ ~Truthy(strategy)
     \/ LengthOr0(Get(strategy, "exam_strategy")) < 2
     \/ LengthOr0(Get(strategy, "logical_deduction")) < 2
     \/ LengthOr0(Get(Get(strategy, "difficulty"), "why")) < 1
     \/ ~Truthy(rationale)
     \/ Len(Trim(rationale.v)) < 10

-----------------------------------------------------------------------------
(* lib/generateQuestionAnalysis.ts: post-processor *)

\* Number(x) for the values postProcess converts (ids and confidences are
\* numbers in the output of normalizeQuestionAnalysisV1)
ToNumber(x) ==
  CASE x.t = "number" -> x
    [] x.t = "undefined" -> NaN
    [] x.t = "null" -> Num(0)
    [] x.t = "boolean" -> Num(IF x.v THEN 1 ELSE 0)

\* o.k1 = v1; o.k2 = v2; ... : the assigned properties replace or extend o's
Assign(o, props) == Obj(props @@ o.v)

\* q.map((x) => String(x || "").trim()).filter(Boolean)
TrimmedList(q) ==
  Arr(SelectSeq([i \in 1..Len(q) |-> Str(Trim(StringOf(OrElse(q[i], Str("")))))], Truthy))

\* Array.isArray(x) ? x.map(...trim...).filter(Boolean) : []
TrimmedListOf(x) == IF x.t = "array" THEN TrimmedList(x.v) ELSE Arr(<<>>)

\* the callback of factsRaw.map at lines 319-327: a fact, or null
postProcessFact(f, inp) ==
  LET fact == Trim(StringOf(OrElse(Get(f, "fact"), Str(""))))
      ex == Get(f, "example")
      example == IF ex.t = "string" THEN Str(Trim(ex.v)) ELSE Undef
      source == sanitizeSource(Coalesce(Get(f, "source"), EmptyObj), inp.questionText, fact)
  IN IF fact = "" THEN Null
     ELSE Obj([fact |-> Str(fact),
               example |-> IF Truthy(example) /\ Len(example.v) > 0 THEN example ELSE Undef,
               source |-> source])

\* the callback of a.statements.map at lines 309-331, idx 0-based
postProcessStatement(s, idx, inp) ==
  LET n == ToNumber(Get(s, "id"))
      verdictRaw == ToLower(StringOf(OrElse(Get(s, "verdict"), Str("unknown"))))
      fr == Get(s, "facts")
      factsRaw == IF fr.t = "array" THEN fr.v ELSE <<>>
  IN Obj([id |-> IF IsFinite(n) /\ NumLess(Num(0), n) THEN n ELSE Num(idx + 1),
          verdict |-> IF verdictRaw \in {"correct", "incorrect", "unknown"}
                      THEN Str(verdictRaw) ELSE Str("unknown"),
          facts |-> Arr(SelectSeq([i \in 1..Len(factsRaw) |->
                                     postProcessFact(factsRaw[i], inp)], Truthy))])

\* line 294 left out
answerKept(a, inp) == a

\* line 294: a.correct_answer = input.officialAnswer
withOfficialAnswer(a, inp) == Assign(a, [correct_answer |-> Str(inp.officialAnswer)])

\* an empty list of statements left empty
noPlaceholder(st0) == st0

\* lines 304-307: an empty list of statements becomes one placeholder statement
orPlaceholder(st0) ==
  IF Len(st0) = 0
  THEN <<Obj([id |-> Num(1), verdict |-> Str("unknown"), facts |-> Arr(<<>>)])>>
  ELSE st0

\* lines 296-370
enforceStructure(a, inp) ==
  LET tb0 == Coalesce(Get(a, "topic_brief"),
                      Obj([title |-> Str("Topic Brief"), bullets |-> Arr(<<>>)]))
      topic_brief ==
        Assign(tb0, [title |-> Str(Trim(OrElse(Get(tb0, "title"), Str("Topic Brief")).v)),
                     bullets |-> TrimmedListOf(Get(tb0, "bullets"))])
      st0 == IF Get(a, "statements").t = "array" THEN Get(a, "statements").v ELSE <<>>
      st1 == orPlaceholder(st0)
      statements == Arr([i \in 1..Len(st1) |-> postProcessStatement(st1[i], i - 1, inp)])
      strategy0 ==
        Coalesce(Get(a, "strategy"),
                 Obj([difficulty |-> Obj([level |-> Str("moderate"), why |-> Arr(<<>>)]),
                      exam_strategy |-> Arr(<<>>),
                      logical_deduction |-> Arr(<<>>),
                      ai_verdict |-> Obj([recommendation |-> Str("attempt"),
                                          rationale |-> Str(""),
                                          confidence |-> Num(60)])]))
      diff0 == Get(strategy0, "difficulty")
      lvl == ToLower(StringOf(OrElse(Get(diff0, "level"), Str("moderate"))))
      difficulty ==
        Assign(diff0, [level |-> IF lvl \in {"easy", "moderate", "hard"}
                                 THEN Str(lvl) ELSE Str("moderate"),
                       why |-> TrimmedListOf(Get(diff0, "why"))])
      av0 == Coalesce(Get(strategy0, "ai_verdict"),
                      Obj([recommendation |-> Str("attempt"),
                           rationale |-> Str(""),
                           confidence |-> Num(60)]))
      conf == ToNumber(Get(av0, "confidence"))
      ai_verdict ==
        Assign(av0,
          [recommendation |->
             IF StringOf(OrElse(Get(av0, "recommendation"), Str("attempt"))) = "skip"
             THEN Str("skip") ELSE Str("attempt"),
           rationale |-> Str(Trim(StringOf(OrElse(Get(av0, "rationale"), Str(""))))),
           confidence |-> IF IsFinite(conf) THEN MathMax(Num(0), MathMin(Num(100), conf))
                          ELSE Num(60)])
      strategy ==
        Assign(strategy0, [difficulty |-> difficulty,
                           exam_strategy |-> TrimmedListOf(Get(strategy0, "exam_strategy")),
                           logical_deduction |->
                             TrimmedListOf(Get(strategy0, "logical_deduction")),
                           ai_verdict |-> ai_verdict])
  IN Assign(a, [topic_brief |-> topic_brief,
                statements |-> statements,
                strategy |-> strategy])

postProcess(a, inp) == enforceStructure(withOfficialAnswer(a, inp), inp)

-----------------------------------------------------------------------------
(* lib/generateQuestionAnalysis.ts: generateQuestionAnalysis *)

\* A response text is a string: either a text JSON.parse accepts, modelled by
\* the value it parses to, [t |-> "string", json |-> value], or a text it
\* rejects, Str(s).
JsonText(v) == [t |-> "string", json |-> v]

\* JSON.parse(text): the parsed value, or the SyntaxError thrown
JSONParse(text) == IF "json" \in DOMAIN text THEN text.json ELSE SyntaxError

\* lines 19-25: any error of JSON.parse is caught
safeParseJSON(text) == IF JSONParse(text).t = "throw" THEN EmptyObj ELSE JSONParse(text)

\* res.choices?.[0]?.message?.content
messageContent(res) ==
  LET choices == Get(res, "choices")
      first == IF choices.t = "array" /\ Len(choices.v) >= 1 THEN choices.v[1] ELSE Undef
  IN Get(Get(first, "message"), "content")

\* line 389: res.choices?.[0]?.message?.content ?? "{}"
contentOf(res) == Coalesce(messageContent(res), JsonText(EmptyObj))

\* a fallback statement with a second fact
fallbackTwoFacts ==
  <<Obj([fact |-> Str("Confirm the key recall-based fact from an official document/textbook before relying on it in exam conditions."),
         source |-> Obj([name |-> Str("Standard book"),
                         pointer |-> Str("Standard book " \o Bullet \o " Reference")])]),
    Obj([fact |-> Str("Cross-check the anchor against the latest official release."),
         source |-> Obj([name |-> Str("Standard book"),
                         pointer |-> Str("Standard book " \o Bullet \o " Reference")])])>>

\* lines 411-418: the facts of the fallback's only statement
fallbackFacts ==
  <<Obj([fact |-> Str("Confirm the key recall-based fact from an official document/textbook before relying on it in exam conditions."),
         source |-> Obj([name |-> Str("Standard book"),
                         pointer |-> Str("Standard book " \o Bullet \o " Reference")])])>>

\* the literal of lines 398-437
fallbackLiteral(inp) ==
  Obj([
    correct_answer |-> Str(inp.officialAnswer),
    topic_brief |-> Obj([
      title |-> Str("Topic Brief"),
      bullets |-> Arr(<<
        Str("This question hinges on a specific anchor fact; confirm it from a primary source."),
        Str("Attempt only if you can recall at least one anchor confidently under pressure."),
        Str("If no anchor exists quickly, skip to protect accuracy under negative marking.")>>)]),
    statements |-> Arr(<<
      Obj([id |-> Num(1),
           verdict |-> Str("unknown"),
           facts |-> Arr(fallbackFacts)])>>),
    strategy |-> Obj([
      difficulty |-> Obj([
        level |-> Str("moderate"),
        why |-> Arr(<<Str("Recall-heavy; depends on having read the source.")>>)]),
      exam_strategy |-> Arr(<<
        Str("Look for one high-confidence anchor fact; if absent, skip fast."),
        Str("Don't burn time validating multiple statements via guesswork.")>>),
      logical_deduction |-> Arr(<<
        Str("Prefer stable anchors (definitions, core NCERT concepts) over fuzzy recall."),
        Str("If >2 statements need blind recall, treat as a skip candidate.")>>),
      ai_verdict |-> Obj([
        recommendation |-> Str("skip"),
        rationale |-> Str("Attempt only if you have a high-confidence anchor fact; otherwise skip to protect score under negative marking."),
        confidence |-> Num(55)])])])

\* the fallback returned as the template stands: its own answer letter, and no
\* postProcess
fallbackTemplate(inp) ==
  normalizeQuestionAnalysisV1(fallbackLiteral([inp EXCEPT !.officialAnswer = "A"]))

\* lines 398-439
fallbackAnalysis(inp) == postProcess(normalizeQuestionAnalysisV1(fallbackLiteral(inp)), inp)

\* the bound of the loop at line 380
MaxAttempts == 2

\* the sampling temperature of an attempt, in hundredths (line 383)
temperatureOf(a) == IF a = 1 THEN 20 ELSE 35

-----------------------------------------------------------------------------
(* Inputs *)

\* the longest list of bullets or facts drawn from the pools below
MaxList == 2

RECURSIVE ListsUpTo(_, _)
\* the sequences of at most n elements of S
ListsUpTo(S, n) ==
  IF n = 0 THEN {<<>>}
  ELSE ListsUpTo(S, n - 1) \cup {Append(q, x) : q \in ListsUpTo(S, n - 1), x \in S}

QuestionTexts ==
  {"Which body is set up under Article 280?",
   "Ministry of Finance notification on GST",
   "Consider the following pairs"}

Inputs ==
  {[questionText |-> q, options |-> [A |-> "I only", B |-> "II only", C |-> "Both", D |-> ""],
    officialAnswer |-> ans] : q \in QuestionTexts, ans \in {"A", "B", "C", "D"}}

BulletPool ==
  {Str("Article 280 sets up the body"), Str(" Tax shares go to the states "),
   Str("  "), Str(""), Num(5)}

FactGoodA ==
  Obj([fact |-> Str("Article 280 creates it"),
       source |-> Obj([name |-> Str("NCERT"), pointer |-> Str("NCERT * Class 11 * Polity")])])
FactGoodB ==
  Obj([fact |-> Str(" The President appoints members "),
       example |-> Str(" 15th panel "),
       source |-> Obj([name |-> Str("PIB"), pointer |-> Str("PIB * Release of 2020"),
                       url |-> Str("https://pib.gov.in/1")])])
FactUrlNcert ==
  Obj([fact |-> Str("Ch 4 covers devolution"),
       example |-> Str("  "),
       source |-> Obj([name |-> Str("NCERT"), pointer |-> Str("NCERT * Class 11 * Ch 4"),
                       url |-> Str("https://ncert.nic.in/x")])])
FactBlank ==
  Obj([fact |-> Str("   "), source |-> Obj([name |-> Str("PIB"), pointer |-> Str("x")])])
FactBulletPointer ==
  Obj([fact |-> Str("Other options contradict this"),
       source |-> Obj([name |-> Str("The Hindu"), pointer |-> Str(" * "),
                       url |-> Str("ftp://x")])])
FactStringSource == Obj([fact |-> Str("Pairs match"), source |-> Str("random")])
FactNumber == Obj([fact |-> Num(7), example |-> Num(1), source |-> Null])
\* JSON.parse('{"fact":"See the release","source":{"name":{"toString":null}}}')
FactToStringName ==
  Obj([fact |-> Str("See the release"),
       source |-> Obj([name |-> Obj([toString |-> Null])])])
FactToStringPointer ==
  Obj([fact |-> Str(""),
       source |-> Obj([name |-> Str("PIB"),
                       pointer |-> Arr(<<Obj([toString |-> Num(1), valueOf |-> Num(1)])>>)])])

FactPool == {FactGoodA, FactGoodB, FactUrlNcert, FactBlank, FactBulletPointer, Null}

BulletLists == ListsUpTo(BulletPool, MaxList)
FactLists ==
  ListsUpTo(FactPool, MaxList)
    \cup {<<FactStringSource>>, <<FactNumber, FactGoodA>>, <<FactToStringName>>,
          <<FactGoodA, FactToStringPointer>>, <<FactGoodA, FactGoodB, FactUrlNcert>>,
          <<FactGoodB, FactBlank, FactGoodA>>, <<FactGoodA, FactGoodB, FactBulletPointer>>}

GoodBullets == <<Str("Article 280 sets up the body"), Str(" Tax shares go to the states ")>>
GenericBullets == <<Str("Core concept of devolution"), Str("Key Definition: grants")>>

TopicBriefs ==
  {Obj([title |-> ti, bullets |-> Arr(b)]) :
     ti \in {Str(" Fiscal federalism "), Null}, b \in BulletLists}
    \cup {Arr(b) : b \in BulletLists}
    \cup {Obj([title |-> Str("   "), bullets |-> Arr(GenericBullets)]),
          Obj([title |-> Str(""), bullets |-> Str("not a list")]),
          Str("A single bullet"), Str(" "), Str(""), Null, Num(3), Bool(TRUE)}

GoodTopicBrief == Obj([title |-> Str(" Fiscal federalism "), bullets |-> Arr(GoodBullets)])

Statement(id, verdict, facts) == Obj([id |-> id, verdict |-> verdict, facts |-> Arr(facts)])

GoodStatement == Statement(Num(1), Str("correct"), <<FactGoodA, FactGoodB>>)

StatementLists ==
  {<<Statement(Num(3), Str("incorrect"), f)>> : f \in FactLists}
    \cup {<<Statement(Str("II"), Str("Correct"), f)>> : f \in {g \in FactLists : Len(g) <= 1}}
    \cup {<<>>,
          <<GoodStatement, Statement(Str("II"), Null, <<FactGoodB, FactUrlNcert>>)>>,
          <<Statement(Num(0), Str("unknown"), <<>>), Statement(Num(-2), Num(1), <<FactBlank>>),
            Statement(NumHalf(1), Str("maybe"), <<FactGoodA>>)>>,
          <<Null, Str("I"), Obj([id |-> Infinity, facts |-> Str("none")]), Arr(<<GoodStatement>>)>>,
          <<Statement(Str("3"), Str("correct"), <<FactGoodA, FactGoodB>>),
            Statement(Num(7), Str("incorrect"), <<FactGoodA, FactGoodB>>),
            Obj([verdict |-> Str("unknown")]),
            Statement(Bool(TRUE), Str("correct"), <<>>)>>}

StatementsShapes ==
  {Arr(q) : q \in StatementLists} \cup {Null, Str("none"), GoodStatement, Num(2)}

GoodStatements == Arr(<<GoodStatement>>)

Strategy(level, why, exam, logic, verdict) ==
  Obj([difficulty |-> Obj([level |-> level, why |-> why]),
       exam_strategy |-> exam, logical_deduction |-> logic, ai_verdict |-> verdict])

Verdict(rec, rationale, confidence) ==
  Obj([recommendation |-> rec, rationale |-> rationale, confidence |-> confidence])

TwoTips == Arr(<<Str("Eliminate the extreme option"), Str(" Check the article number ")>>)

GoodStrategy ==
  Strategy(Str("hard"), Arr(<<Str("Needs exact recall")>>), TwoTips, TwoTips,
           Verdict(Str("skip"), Str(" Low odds without the article "), Num(70)))

Strategies ==
  {GoodStrategy,
   Strategy(Str("Hard"), Arr(<<Str("  ")>>), TwoTips, TwoTips,
            Verdict(Str("Skip"), Str(" Low odds without the article "), Num(-5))),
   Strategy(Str("easy"), Arr(<<Str("Direct")>>), TwoTips, Arr(<<Str("One step"), Str(" ")>>),
            Verdict(Str("attempt"), Str("Known fact, attempt it"), Num(500))),
   Strategy(Null, Str("why"), Arr(<<Num(1), Str("a"), Str("b")>>), TwoTips,
            Verdict(Num(1), Str("  short    "), Str("high"))),
   Strategy(Str("moderate"), Arr(<<Str("Mixed")>>), TwoTips, TwoTips,
            Verdict(Str("skip"), Null, NumHalf(55))),
   Strategy(Str("moderate"), Arr(<<Str("Mixed")>>), TwoTips, TwoTips,
            Verdict(Null, Str("Reasonable odds here"), Infinity)),
   Obj([difficulty |-> Str("hard"), ai_verdict |-> Arr(<<>>)]),
   Obj([difficulty |-> Null, exam_strategy |-> TwoTips]),
   EmptyObj, Null, Str("skip"), Num(4), Arr(<<GoodStrategy>>)}

Analysis(ca, tb, sts, strat) ==
  Obj([correct_answer |-> ca, topic_brief |-> tb, statements |-> sts, strategy |-> strat])

GoodRaw == Analysis(Str("B"), GoodTopicBrief, GoodStatements, GoodStrategy)

\* the arguments of normalizeQuestionAnalysisV1 the harness draws
RawInputs ==
  {Analysis(Str("B"), tb, GoodStatements, GoodStrategy) : tb \in TopicBriefs}
    \cup {Analysis(Str("D"), GoodTopicBrief, sts, GoodStrategy) : sts \in StatementsShapes}
    \cup {Analysis(Num(1), GoodTopicBrief, GoodStatements, st) : st \in Strategies}
    \cup {Obj([topic_brief |-> GoodTopicBrief]), Obj([statements |-> GoodStatements]),
          Obj([strategy |-> GoodStrategy]), Obj([toString |-> Null]),
          EmptyObj, Null, Undef, Arr(<<>>), Arr(<<GoodRaw>>), Str("text"), Str(""),
          Num(0), Num(12), Bool(TRUE), Bool(FALSE)}

Response(content) ==
  Obj([choices |-> Arr(<<Obj([message |-> Obj([content |-> content])])>>)])

\* the values the generator's JSON texts parse to
GeneratedValues ==
  {GoodRaw,
   Obj([topic_brief |-> Arr(GoodBullets),
        statements |-> Arr(<<Statement(Str("II"), Str("incorrect"),
                                       <<FactUrlNcert, FactBulletPointer>>)>>),
        strategy |-> GoodStrategy]),
   Analysis(Str("A"), Obj([title |-> Null, bullets |-> Arr(GenericBullets)]),
            GoodStatements, GoodStrategy),
   Analysis(Str("C"), GoodTopicBrief, Arr(<<Statement(Num(1), Str("correct"), <<FactGoodA>>)>>),
            GoodStrategy),
   Analysis(Str("A"), GoodTopicBrief, Arr(<<Statement(Num(1), Str("correct"),
                                                      <<FactGoodA, FactToStringName>>)>>),
            GoodStrategy),
   Analysis(Str("D"), GoodTopicBrief, GoodStatements, Null),
   EmptyObj, Null, Str("hello"), Arr(<<GoodRaw>>)}

\* what openai.chat.completions.create resolves to
Responses ==
  {Response(JsonText(v)) : v \in GeneratedValues}
    \cup {Response(Str("not json")), Response(Str("")), Response(Null),
          Obj([choices |-> Arr(<<>>)]), EmptyObj}

-----------------------------------------------------------------------------
(* generateQuestionAnalysis as a state machine.  The function suspends only at
   `await openai.chat.completions.create(...)`; each action is the code that
   runs between two suspensions. *)

Event(ev, a) == [ev |-> ev, attempt |-> a]

CallEvent(a) == [ev |-> "call", attempt |-> a, temperature |-> temperatureOf(a)]

HarnessIdle == raw = Undef /\ req = Undef /\ out = Undef /\ phase = "off"

\* no concurrent invocation is modelled
Alone == procs = <<>>

\* no request to the route is modelled
RouteIdle == db = Undef /\ handlers = <<>>

Init ==
  /\ input \in Inputs
  /\ pc = "start"
  /\ attempt = 0
  /\ calls = 0
  /\ responses = <<>>
  /\ analyses = <<>>
  /\ verdicts = <<>>
  /\ result = Undef
  /\ log = <<>>
  /\ HarnessIdle
  /\ Alone
  /\ RouteIdle

\* lines 378-387: the prompt is built, the loop is entered and the first call issued
Start ==
  /\ pc = "start"
  /\ pc' = "awaiting"
  /\ attempt' = 1
  /\ calls' = calls + 1
  /\ log' = Append(log, CallEvent(1))
  /\ UNCHANGED <<input, responses, analyses, verdicts, result, raw, req, out, phase, procs, db, handlers>>

\* a loop that allows one attempt more
LoopOfThree(a) == a + 1 <= MaxAttempts + 1

\* whether the loop of line 380 runs once more after attempt a
LoopContinues(a) == a + 1 <= MaxAttempts

\* line 393, unless line 390 or line 392 threw
enforced(n, inp) == IF n.t = "throw" THEN n ELSE postProcess(n, inp)

\* line 392, unless line 390 threw
normalized(parsed) ==
  IF parsed.t = "throw" THEN parsed ELSE normalizeQuestionAnalysisV1(parsed)

\* lines 389-393: the analysis of the attempt, or the error thrown
attemptAnalysis(res, inp) == enforced(normalized(safeParseJSON(contentOf(res))), inp)

\* an accepted attempt answered with the fallback
fallbackInstead(a, inp) == fallbackAnalysis(inp)

\* the value generateQuestionAnalysis returns when the attempt's analysis a is
\* accepted (line 395)
acceptedValue(a, inp) == a

\* the steps of an attempt up to the call of normalizeQuestionAnalysisV1
Steps(a) == <<Event("response", a), Event("parse", a), Event("normalize", a)>>

\* lines 395-439 once postProcess has returned a and the gate has answered weak
Decide(a, weak) ==
  /\ verdicts' = Append(verdicts, weak)
  /\ IF ~weak
     THEN /\ pc' = "returned"
          /\ result' = acceptedValue(a, input)
          /\ log' = log \o Steps(attempt)
                        \o <<Event("postProcess", attempt), Event("accept", attempt),
                             Event("return", attempt)>>
          /\ UNCHANGED <<attempt, calls>>
     ELSE IF LoopContinues(attempt)
     THEN /\ pc' = "awaiting"
          /\ attempt' = attempt + 1
          /\ calls' = calls + 1
          /\ result' = result
          /\ log' = log \o Steps(attempt)
                        \o <<Event("postProcess", attempt), Event("reject", attempt),
                             CallEvent(attempt + 1)>>
     ELSE /\ pc' = "returned"
          /\ result' = fallbackAnalysis(input)
          /\ log' = log \o Steps(attempt)
                        \o <<Event("postProcess", attempt), Event("reject", attempt),
                             Event("fallback", attempt), Event("return", attempt)>>
          /\ UNCHANGED <<attempt, calls>>

\* lines 389-439 given a, the analysis of the attempt or the TypeError thrown
Process(res, a) ==
  /\ responses' = Append(responses, res)
  /\ analyses' = Append(analyses, a)
  /\ IF a.t = "throw"
     THEN /\ pc' = "threw"
          /\ result' = a
          /\ verdicts' = verdicts
          /\ log' = log \o Steps(attempt) \o <<Event("throw", attempt)>>
          /\ UNCHANGED <<attempt, calls>>
     ELSE Decide(a, analysisLooksWeak(a))

\* lines 389-396, then 380-387 or 398-439: the call of the current attempt
\* resolves with res
Respond(res) ==
  /\ pc = "awaiting"
  /\ Process(res, attemptAnalysis(res, input))
  /\ UNCHANGED <<input, raw, req, out, phase, procs, db, handlers>>

\* a rejected call answered with the fallback
FailFallsBack ==
  /\ pc = "awaiting"
  /\ pc' = "returned"
  /\ result' = fallbackAnalysis(input)
  /\ log' = log \o <<Event("failure", attempt), Event("fallback", attempt),
                     Event("return", attempt)>>
  /\ UNCHANGED <<input, attempt, calls, responses, analyses, verdicts, raw, req, out,
                 phase, procs, db, handlers>>

\* line 381: the awaited call rejects; nothing catches it
Fail ==
  /\ pc = "awaiting"
  /\ pc' = "threw"
  /\ result' = TransportFailure
  /\ log' = Append(log, Event("failure", attempt))
  /\ UNCHANGED <<input, attempt, calls, responses, analyses, verdicts, raw, req, out,
                 phase, procs, db, handlers>>

Next == Start \/ (\E res \in Responses : Respond(res)) \/ Fail

Spec == Init /\ [][Next]_vars

-----------------------------------------------------------------------------
(* The functions on their own: normalizeQuestionAnalysisV1 applied to a drawn
   value, then postProcess applied to its result for a drawn request. *)

GenerateIdle ==
  /\ input = Undef /\ pc = "off" /\ attempt = 0 /\ calls = 0 /\ responses = <<>>
  /\ analyses = <<>> /\ verdicts = <<>> /\ result = Undef /\ log = <<>>

InitFn ==
  /\ raw \in RawInputs
  /\ req = Undef
  /\ out = Undef
  /\ phase = "input"
  /\ GenerateIdle
  /\ Alone
  /\ RouteIdle

Normalize ==
  /\ phase = "input"
  /\ out' = normalizeQuestionAnalysisV1(raw)
  /\ phase' = "normalized"
  /\ UNCHANGED <<raw, req, input, pc, attempt, calls, responses, analyses, verdicts,
                 result, log, procs, db, handlers>>

Enforce(r) ==
  /\ phase = "normalized"
  /\ out # Throw
  /\ out' = postProcess(out, r)
  /\ req' = r
  /\ phase' = "enforced"
  /\ UNCHANGED <<raw, input, pc, attempt, calls, responses, analyses, verdicts, result,
                 log, procs, db, handlers>>

\* the requests postProcess is given
Requests == {r \in Inputs : r.officialAnswer \in {"A", "D"}}

NextFn == Normalize \/ (\E r \in Requests : Enforce(r))

SpecFn == InitFn /\ [][NextFn]_vars

-----------------------------------------------------------------------------
(* sanitizeSource on its own, applied to a drawn source and drawn texts *)

Source(name, pointer) == Obj([name |-> name, pointer |-> pointer])

SourceWithUrl(name, pointer, url) == Obj([name |-> name, pointer |-> pointer, url |-> url])

SourcePool ==
  {Source(Str("NCERT"), Str("NCERT * Class 11 * Polity")),
   SourceWithUrl(Str(" NCERT "), Str("NCERT * Class 11 * Ch 4"), Str("https://ncert.nic.in/x")),
   SourceWithUrl(Str("PIB"), Str("PIB * Release of 2020"), Str("https://pib.gov.in/1")),
   SourceWithUrl(Str("PIB"), Str("PIB * Release of 2020"), Str("ftp://pib.gov.in/1")),
   SourceWithUrl(Str("PIB"), Str("PIB * Release of 2020"), Num(4)),
   SourceWithUrl(Str("Other"), Str("Annual survey, volume 2"), Str("http://example.org")),
   Source(Str("random"), Str("chapter on topic")),
   SourceWithUrl(Str("The Hindu"), Str("x"), Str("https://thehindu.com/a")),
   Source(Str("Indian Express"), Str("  ?? ")),
   SourceWithUrl(Str("Govt website"), Str("General Reference"), Str("https://gov.in")),
   Source(Str("Other"), Str("General Reference")),
   Source(Str("Tamil Nadu Board"), Str("Tamil Nadu Board * Class 9 * Geography")),
   SourceWithUrl(Str("Govt website"), Str("Gazette  of\tIndia, 2019"), Str("https://gov.in")),
   Source(Str("Tamil Nadu Board"), Str("Section on rivers, Class 9")),
   Source(Str("Standard book"), Str("Laxmikanth * * Ch 12 ??")),
   SourceWithUrl(Str("International org"), Str("UNEP report 2021"), Str("http://unep.org")),
   Source(Str("ncert"), Str("NCERT * Class 11 * Polity")),
   Source(Str("PIB"), Str("PIB** Release of 2020")),
   Source(Null, Num(12345678)),
   Source(Num(5), Null),
   Source(Str("NCERT"), NumDec(1234567, 25, 2)),
   Obj([url |-> Str("https://pib.gov.in/2")]),
   EmptyObj, Null, Undef, Str("NCERT"), Arr(<<Str("PIB")>>),
   Source(Obj([toString |-> Null]), Str("NCERT * Class 11 * Polity")),
   Source(Str("NCERT"), Arr(<<Obj([toString |-> Str("x")])>>))}

\* the question text and the fact text handed to sanitizeSource
SourceTexts ==
  {[questionText |-> "Ministry of Finance notification on GST", factText |-> "Plain recall"],
   [questionText |-> "Consider the following pairs", factText |-> "Plain recall"],
   [questionText |-> "Consider the following pairs",
    factText |-> "PIB note of the Ministry at the UN"],
   [questionText |-> "Which body is set up under Article 280?", factText |-> "Plain recall"],
   [questionText |-> "Consider the following pairs",
    factText |-> "The Hindu and Indian Express editorials"],
   [questionText |-> "Consider the following pairs", factText |-> "Indian Express column"],
   [questionText |-> "Ministry of Finance notification on GST",
    factText |-> "World Bank and UNFCCC"]}

InitSrc ==
  /\ raw \in SourcePool
  /\ req \in SourceTexts
  /\ out = Undef
  /\ phase = "source"
  /\ GenerateIdle
  /\ Alone
  /\ RouteIdle

Sanitize ==
  /\ phase = "source"
  /\ out' = sanitizeSource(raw, req.questionText, req.factText)
  /\ phase' = "sanitized"
  /\ UNCHANGED <<raw, req, input, pc, attempt, calls, responses, analyses, verdicts,
                 result, log, procs, db, handlers>>

NextSrc == Sanitize

SpecSrc == InitSrc /\ [][NextSrc]_vars

-----------------------------------------------------------------------------
(* Several invocations of generateQuestionAnalysis in flight at once.  Node runs
   one callback at a time, so the invocations interleave at their awaits: every
   action below is the code one invocation runs between two suspensions.  All
   the function's variables (prompt, attempt, res, content, parsed, normalized,
   enforced) are locals of the call; the module holds only the const `openai`
   client, through which the calls are issued. *)

MaxProcs == 2

Procs == 1..MaxProcs

ParInputs ==
  {[questionText |-> "Which body is set up under Article 280?",
    options |-> [A |-> "I only", B |-> "II only", C |-> "Both", D |-> ""],
    officialAnswer |-> "A"],
   [questionText |-> "Ministry of Finance notification on GST",
    options |-> [A |-> "I only", B |-> "II only", C |-> "Both", D |-> ""],
    officialAnswer |-> "C"]}

\* a response the gate accepts, one it rejects, one whose analysis throws
ParResponses ==
  {Response(JsonText(GoodRaw)),
   Response(Str("not json")),
   Response(JsonText(Analysis(Str("A"), GoodTopicBrief,
                              Arr(<<Statement(Num(1), Str("correct"),
                                              <<FactGoodA, FactToStringName>>)>>),
                              GoodStrategy)))}

\* the locals of an invocation that has not run yet; outcomes is what its calls
\* of openai.chat.completions.create settled with, in order
Invocation(inp) ==
  [input |-> inp, pc |-> "start", attempt |-> 0, calls |-> 0, outcomes |-> <<>>,
   result |-> Undef]

InitPar ==
  /\ procs \in [Procs -> {Invocation(inp) : inp \in ParInputs}]
  /\ GenerateIdle
  /\ HarnessIdle
  /\ RouteIdle

\* a loop counter kept once for the module: the furthest attempt of any invocation
attemptShared(p) ==
  CHOOSE a \in {procs[q].attempt : q \in Procs} : \A q \in Procs : procs[q].attempt <= a

\* line 380, `let attempt`: the loop counter invocation p reads is its own
attemptOf(p) == procs[p].attempt

\* lines 378-387 of invocation p
ParStart(p) ==
  /\ procs[p].pc = "start"
  /\ procs' = [procs EXCEPT ![p].pc = "awaiting", ![p].attempt = 1, ![p].calls = 1]
  /\ UNCHANGED <<input, pc, attempt, calls, responses, analyses, verdicts, result, log,
                 raw, req, out, phase, db, handlers>>

\* lines 395-439 of an invocation in state st: postProcess returned a, the gate
\* answered weak, and the loop counter read is att
Settle(st, att, a, weak) ==
  IF ~weak THEN [st EXCEPT !.pc = "returned", !.result = acceptedValue(a, st.input)]
  ELSE IF LoopContinues(att) THEN [st EXCEPT !.attempt = att + 1, !.calls = @ + 1]
  ELSE [st EXCEPT !.pc = "returned", !.result = fallbackAnalysis(st.input)]

\* lines 389-439 given a, the analysis of the attempt or the TypeError thrown
Advance(st, att, a) ==
  IF a = Throw THEN [st EXCEPT !.pc = "threw", !.result = Throw]
  ELSE Settle(st, att, a, analysisLooksWeak(a))

\* the call invocation p awaits resolves with res
ParRespond(p, res) ==
  /\ procs[p].pc = "awaiting"
  /\ procs' = [procs EXCEPT ![p] =
                 Advance([procs[p] EXCEPT !.outcomes = Append(@, res)], attemptOf(p),
                         attemptAnalysis(res, procs[p].input))]
  /\ UNCHANGED <<input, pc, attempt, calls, responses, analyses, verdicts, result, log,
                 raw, req, out, phase, db, handlers>>

\* line 381 of invocation p: the awaited call rejects
ParFail(p) ==
  /\ procs[p].pc = "awaiting"
  /\ procs' = [procs EXCEPT ![p].outcomes = Append(@, TransportFailure),
                            ![p].pc = "threw", ![p].result = TransportFailure]
  /\ UNCHANGED <<input, pc, attempt, calls, responses, analyses, verdicts, result, log,
                 raw, req, out, phase, db, handlers>>

NextPar ==
  \E p \in Procs : ParStart(p) \/ (\E res \in ParResponses : ParRespond(p, res)) \/ ParFail(p)

SpecPar == InitPar /\ [][NextPar]_vars

-----------------------------------------------------------------------------
(* Properties of generateQuestionAnalysis (specification Spec) *)

Last(q) == q[Len(q)]

LogHas(ev) == \E i \in 1..Len(log) : log[i].ev = ev

CallsAt == {i \in 1..Len(log) : log[i].ev = "call"}

\* the sets of the facts of an analysis and of the bullets of its topic brief
FactsOf(a) ==
  UNION {{Get(st, "facts").v[j] : j \in 1..Len(Get(st, "facts").v)} :
           st \in {Get(a, "statements").v[i] : i \in 1..Len(Get(a, "statements").v)}}

BulletsOf(a) ==
  {Get(Get(a, "topic_brief"), "bullets").v[i] :
     i \in 1..Len(Get(Get(a, "topic_brief"), "bullets").v)}

IsStringArray(x) == x.t = "array" /\ \A i \in 1..Len(x.v) : x.v[i].t = "string"

\* the shape of QuestionAnalysisV1 (lib/aiAnalysis.ts lines 4-59)
SchemaValid(a) ==
  /\ a.t = "object"
  /\ Get(a, "correct_answer").t = "string"
  /\ Get(Get(a, "topic_brief"), "title").t = "string"
  /\ IsStringArray(Get(Get(a, "topic_brief"), "bullets"))
  /\ Get(a, "statements").t = "array"
  /\ \A i \in 1..Len(Get(a, "statements").v) :
       /\ Get(Get(a, "statements").v[i], "id").t = "number"
       /\ Get(Get(a, "statements").v[i], "verdict")
            \in {Str("correct"), Str("incorrect"), Str("unknown")}
       /\ Get(Get(a, "statements").v[i], "facts").t = "array"
  /\ \A f \in FactsOf(a) :
       /\ Get(f, "fact").t = "string"
       /\ Get(Get(f, "source"), "name") \in {Str(n) : n \in ALLOWED_SOURCES}
       /\ Get(Get(f, "source"), "pointer").t = "string"
  /\ Get(Get(Get(a, "strategy"), "difficulty"), "level")
       \in {Str("easy"), Str("moderate"), Str("hard")}
  /\ IsStringArray(Get(Get(Get(a, "strategy"), "difficulty"), "why"))
  /\ IsStringArray(Get(Get(a, "strategy"), "exam_strategy"))
  /\ IsStringArray(Get(Get(a, "strategy"), "logical_deduction"))
  /\ Get(Get(Get(a, "strategy"), "ai_verdict"), "recommendation")
       \in {Str("attempt"), Str("skip")}
  /\ Get(Get(Get(a, "strategy"), "ai_verdict"), "rationale").t = "string"
  /\ Get(Get(Get(a, "strategy"), "ai_verdict"), "confidence").t = "number"

\* C1: every analysis generateQuestionAnalysis returns, from an accepted attempt
\* or from the fallback, has correct_answer equal to the request's
\* officialAnswer, whatever the generator put there.
C1_ReturnedAnswerIsOfficial ==
  pc = "returned" => Get(result, "correct_answer") = Str(input.officialAnswer)

\* an accepted attempt whose generated correct_answer was another letter
C1_Witness ==
  /\ pc = "returned"
  /\ Len(verdicts) > 0 /\ ~Last(verdicts)
  /\ Get(safeParseJSON(contentOf(Last(responses))), "correct_answer").t = "string"
  /\ Get(safeParseJSON(contentOf(Last(responses))), "correct_answer")
       # Str(input.officialAnswer)

\* C2: the generator is called at most twice, one call at a time: the first
\* call opens the run, and a second call is issued only right after the first
\* call's response was parsed, normalized, post-processed and rejected.
C2_AtMostTwoSequentialCalls ==
  /\ calls = Cardinality(CallsAt)
  /\ calls <= 2
  /\ \A i \in CallsAt :
       IF i = 1 THEN log[i].attempt = 1
       ELSE /\ log[i].attempt = 2
            /\ i = 7
            /\ [j \in 1..6 |-> log[j].ev]
                 = <<"call", "response", "parse", "normalize", "postProcess", "reject">>
            /\ \A j \in 1..6 : log[j].attempt = 1

\* a run that made its second call and came back
C2_Witness == calls = 2 /\ pc = "returned" /\ Len(responses) = 2

\* C3: when the gate accepts the post-processed analysis of an attempt, that
\* analysis is what generateQuestionAnalysis returns, at once: the attempt is
\* the last call made and no fallback is built.
C3_AcceptedAttemptIsReturned ==
  \A k \in 1..Len(verdicts) :
    ~verdicts[k] =>
      /\ k = Len(verdicts)
      /\ pc = "returned"
      /\ result = analyses[k]
      /\ calls = k
      /\ ~LogHas("fallback")
      /\ Last(log) = Event("return", k)
      /\ log[Len(log) - 1] = Event("accept", k)

\* the second attempt accepted after the first was rejected
C3_Witness == Len(verdicts) = 2 /\ verdicts[1] /\ ~verdicts[2] /\ pc = "returned"

BothRejected == Len(verdicts) = MaxAttempts /\ \A k \in 1..Len(verdicts) : verdicts[k]

\* C4: when both attempts got a response and the gate rejected both,
\* generateQuestionAnalysis returns, without throwing, the built-in fallback
\* after postProcess, its correct_answer being the request's officialAnswer.
C4_FallbackAfterTwoRejections ==
  BothRejected =>
    /\ pc = "returned"
    /\ result # Throw
    /\ result = postProcess(normalizeQuestionAnalysisV1(fallbackLiteral(input)), input)
    /\ Get(result, "correct_answer") = Str(input.officialAnswer)
    /\ Last(log) = Event("return", MaxAttempts)
    /\ log[Len(log) - 1] = Event("fallback", MaxAttempts)

\* both rejected, for a request whose answer is not the letter A
C4_Witness == BothRejected /\ pc = "returned" /\ input.officialAnswer = "C"

\* C5: when the call of attempt 1, or of attempt 2 after a rejection, fails,
\* the failure is what generateQuestionAnalysis throws: the call is not made
\* again, no fallback is built and nothing is returned.
C5_CallFailurePropagates ==
  LogHas("failure") =>
    /\ pc = "threw"
    /\ result = TransportFailure
    /\ Last(log) = Event("failure", attempt)
    /\ calls = attempt
    /\ Len(responses) = attempt - 1
    /\ ~LogHas("fallback")
    /\ ~LogHas("return")

\* the second call failed after the first attempt was rejected
C5_Witness ==
  pc = "threw" /\ result = TransportFailure /\ attempt = 2 /\ verdicts = <<TRUE>>

\* the response carries no text, or a text JSON.parse rejects
Malformed(res) == IsNullish(messageContent(res)) \/ JSONParse(contentOf(res)) = SyntaxError

\* C6: an attempt whose response text is missing or is no JSON is parsed to the
\* empty object without a throw and handled as an attempt that answered {}: it
\* is rejected; and a run with such an attempt in which no call failed at the
\* transport level ends by returning an analysis, never by throwing.
C6_MalformedHandledAsEmptyObject ==
  /\ \A k \in 1..Len(responses) :
       Malformed(responses[k]) =>
         /\ safeParseJSON(contentOf(responses[k])) = EmptyObj
         /\ analyses[k] # Throw
         /\ analyses[k] = attemptAnalysis(Response(JsonText(EmptyObj)), input)
         /\ Len(verdicts) >= k /\ verdicts[k]
  /\ ((\E k \in 1..Len(responses) : Malformed(responses[k]))
        /\ pc \in {"returned", "threw"} /\ ~LogHas("failure")) =>
       (pc = "returned" /\ SchemaValid(result))

\* C7: whenever no call fails at the transport level, generateQuestionAnalysis
\* ends by returning an analysis that is fully populated and schema-valid,
\* whatever the responses contain.
C7_TransportOkReturnsValidAnalysis ==
  (pc \in {"returned", "threw"} /\ ~LogHas("failure")) =>
    (pc = "returned" /\ SchemaValid(result))

-----------------------------------------------------------------------------
(* Properties of normalizeQuestionAnalysisV1 and postProcess (specification
   SpecFn) *)

\* C8: normalizeQuestionAnalysisV1 throws for no input.
C8_NormalizeNeverThrows == phase = "normalized" => out # Throw

IsBlank(b) == Trim(b.v) = ""

\* C9, as claimed: the bullets normalizeQuestionAnalysisV1 returns hold no empty
\* and no whitespace-only string, for the three shapes of topic_brief.
C9_NormalizedBulletsNotBlank ==
  (phase = "normalized" /\ out # Throw) => \A b \in BulletsOf(out) : ~IsBlank(b)

\* the topic brief normalizeQuestionAnalysisV1 builds at lines 111-124, before
\* it maps the statements
BuiltTopicBrief(rawv) == topicBriefOf(Get(Coalesce(rawv, EmptyObj), "topic_brief"))

\* C9, amended: for every input the bullets normalizeQuestionAnalysisV1 builds
\* hold no empty string, for the three shapes of topic_brief, and they are the
\* bullets of what it returns; whitespace-only bullets are gone only once
\* postProcess has run.
C9_EmptyDroppedThenBlankDropped ==
  /\ phase = "normalized" =>
       \A i \in 1..Len(Get(BuiltTopicBrief(raw), "bullets").v) :
         Get(BuiltTopicBrief(raw), "bullets").v[i].t = "string"
         /\ Get(BuiltTopicBrief(raw), "bullets").v[i].v # ""
  /\ (phase = "normalized" /\ out # Throw) => Get(out, "topic_brief") = BuiltTopicBrief(raw)
  /\ phase = "enforced" => \A b \in BulletsOf(out) : ~IsBlank(b)

\* a topic_brief with an empty or blank bullet, whose blank bullet survived
\* normalizeQuestionAnalysisV1 and was dropped by postProcess
C9_Witness ==
  /\ phase = "enforced"
  /\ \E b \in BulletsOf(normalizeQuestionAnalysisV1(raw)) : IsBlank(b)
  /\ Get(raw, "topic_brief").t \in {"array", "string"}

SourcesOf(a) == {Get(f, "source") : f \in FactsOf(a)}

NameAllowed(src) == Get(src, "name") \in {Str(n) : n \in ALLOWED_SOURCES}

PointerNonEmpty(src) == Get(src, "pointer").t = "string" /\ Get(src, "pointer").v # ""

UrlOnlyWhenLinkable(src) == Get(src, "url") # Undef => linkable(Get(src, "name").v)

\* C10: in what normalizeQuestionAnalysisV1 returns every fact's
\* source has a name of the nine, a non-empty pointer, and a url only under a
\* linkable name.
C10_NormalizedSourcesClassified ==
  (phase = "normalized" /\ out # Throw) =>
    \A src \in SourcesOf(out) :
      NameAllowed(src) /\ PointerNonEmpty(src) /\ UrlOnlyWhenLinkable(src)

\* the statements of the value handed to normalizeQuestionAnalysisV1, and of an
\* analysis
RawStatements == asArray(Get(Coalesce(raw, EmptyObj), "statements"))

StatementsOf(a) == Get(a, "statements").v

\* a value that is a finite number greater than zero
IsPositiveFiniteNumber(x) == IsFinite(x) /\ NumLess(Num(0), x)

\* the number a raw id parses as: the id that is a number, Number(id) of an id
\* that is a string
ParsedNumber(x) ==
  IF x.t = "number" THEN x ELSE IF x.t = "string" THEN NumberOfString(x.v) ELSE NaN

\* C11, as claimed: the statement at 0-based position i of the raw statements
\* gets the raw id when that parses as a finite number greater than zero, and
\* i + 1 otherwise.
C11_IdIsParsedOrPosition ==
  (phase = "normalized" /\ out # Throw) =>
    \A i \in 1..Len(RawStatements) :
      Get(StatementsOf(out)[i], "id") =
        IF IsPositiveFiniteNumber(ParsedNumber(Get(RawStatements[i], "id")))
        THEN ParsedNumber(Get(RawStatements[i], "id")) ELSE Num(i)

\* C11, amended: the statement at 0-based position i of the raw statements gets
\* the raw id when that is of type number, finite and greater than zero, and
\* i + 1 otherwise (missing, null, zero, negative, not finite, or a string such
\* as "II" or "3"), for every input; no id that is not a number comes through,
\* and postProcess leaves the id as normalizeQuestionAnalysisV1 set it.
C11_IdIsRawOrPosition ==
  /\ phase = "normalized" =>
       \A i \in 1..Len(RawStatements) :
         idOf(Get(RawStatements[i], "id"), i - 1) =
           IF IsPositiveFiniteNumber(Get(RawStatements[i], "id"))
           THEN Get(RawStatements[i], "id") ELSE Num(i)
  /\ (phase = "normalized" /\ out # Throw) =>
       /\ Len(StatementsOf(out)) = Len(RawStatements)
       /\ \A i \in 1..Len(RawStatements) :
            Get(StatementsOf(out)[i], "id") = idOf(Get(RawStatements[i], "id"), i - 1)
  /\ (phase = "enforced" /\ Len(RawStatements) > 0) =>
       /\ Len(StatementsOf(out)) = Len(RawStatements)
       /\ \A i \in 1..Len(RawStatements) :
            /\ IsPositiveFiniteNumber(Get(StatementsOf(out)[i], "id"))
            /\ Get(StatementsOf(out)[i], "id") =
                 Get(StatementsOf(normalizeQuestionAnalysisV1(raw))[i], "id")

\* the raw id "II" at 0-based position 1 came out as 2, and stayed 2 after
\* postProcess
C11_Witness ==
  /\ phase = "enforced"
  /\ Len(RawStatements) = 2
  /\ Get(RawStatements[2], "id") = Str("II")
  /\ Get(StatementsOf(normalizeQuestionAnalysisV1(raw))[2], "id") = Num(2)
  /\ Get(StatementsOf(out)[2], "id") = Num(2)

\* raw.strategy?.ai_verdict?.confidence, and the confidence of an analysis
RawConfidence ==
  Get(Get(Get(Coalesce(raw, EmptyObj), "strategy"), "ai_verdict"), "confidence")

ConfidenceOf(a) == Get(Get(Get(a, "strategy"), "ai_verdict"), "confidence")

InUnitRange(c) == c.t = "number" /\ c.fin /\ ~NumLess(c, Num(0)) /\ ~NumLess(Num(100), c)

Processed == (phase = "normalized" /\ out # Throw) \/ phase = "enforced"

\* C12: after normalizeQuestionAnalysisV1, and after postProcess,
\* the confidence is an integer of 0..100: 0 for a number below 0, 100 for a
\* number above 100, 60 for a value that is no number.
C12_ConfidenceIsIntegerInRange ==
  Processed =>
    /\ InUnitRange(ConfidenceOf(out))
    /\ IsInteger(ConfidenceOf(out))
    /\ (RawConfidence.t = "number" /\ RawConfidence.fin /\ NumLess(RawConfidence, Num(0)))
         => ConfidenceOf(out) = Num(0)
    /\ (RawConfidence.t = "number" /\ RawConfidence.fin /\ NumLess(Num(100), RawConfidence))
         => ConfidenceOf(out) = Num(100)
    /\ RawConfidence.t # "number" => ConfidenceOf(out) = Num(60)

-----------------------------------------------------------------------------
(* Properties of sanitizeSource (specification SpecSrc) *)

Sanitized == phase = "sanitized" /\ out # Throw

LinkableNames == {"PIB", "Govt website", "International org", "The Hindu", "Indian Express"}

\* C13: for every source and texts sanitizeSource returns, with a name that is
\* one of the nine and a url that is undefined when that name is none of PIB,
\* Govt website, International org, The Hindu, Indian Express, whatever url
\* the source had.
C13_NameAllowedUrlOnlyLinkable ==
  phase = "sanitized" =>
    /\ out # Throw
    /\ DOMAIN out.v = {"name", "pointer", "url"}
    /\ Get(out, "name").t = "string"
    /\ Get(out, "name").v \in ALLOWED_SOURCES
    /\ Get(out, "name").v \notin LinkableNames => Get(out, "url") = Undef
    /\ Get(out, "url") # Undef => Get(out, "url") = Get(raw, "url")

\* String(src?.name || "Other").trim() and the cleaned pointer of the drawn source
RawNameOf(src) == Trim(ToStringJS(OrElse(Get(src, "name"), Str("Other"))).v)

CleanedPointerOf(src) == cleanPointer(ToStringJS(OrElse(Get(src, "pointer"), Str(""))))

InferredName == inferSourceFromText(req.questionText, req.factText)

\* C14, as claimed: sanitizeSource returns the category inferred from the texts
\* exactly when the raw name is none of the nine or the cleaned pointer is too
\* generic, and the raw name otherwise.
C14_ReinfersUnlessAllowedName ==
  Sanitized =>
    Get(out, "name").v =
      IF RawNameOf(raw) \notin ALLOWED_SOURCES \/ pointerTooGeneric(CleanedPointerOf(raw))
      THEN InferredName ELSE RawNameOf(raw)

\* C14, amended: sanitizeSource returns the category inferred from the texts
\* exactly when the trimmed raw name is none of the eight allowed names other
\* than "Other" (so also when it is "Other" itself) or the cleaned pointer is
\* too generic, and the trimmed raw name otherwise.
C14_ReinfersUnlessSpecificName ==
  Sanitized =>
    Get(out, "name").v =
      IF RawNameOf(raw) \notin (ALLOWED_SOURCES \ {"Other"})
         \/ pointerTooGeneric(CleanedPointerOf(raw))
      THEN InferredName ELSE RawNameOf(raw)

\* the raw name "Other" with a specific pointer was replaced by the inferred
\* category
C14_Witness ==
  /\ Sanitized
  /\ RawNameOf(raw) = "Other"
  /\ Get(raw, "name") = Str("Other")
  /\ ~pointerTooGeneric(CleanedPointerOf(raw))
  /\ Get(out, "name").v = InferredName
  /\ Get(out, "name").v # "Other"

\* C15: the pointer sanitizeSource returns is never empty: a cleaned pointer
\* that is empty or too generic is replaced by the canonical pointer of the
\* returned name, one of which exists for each of the nine names; any other
\* cleaned pointer is kept.
C15_PointerNeverEmpty ==
  Sanitized =>
    /\ Get(out, "pointer").t = "string"
    /\ Get(out, "pointer").v # ""
    /\ \A n \in ALLOWED_SOURCES : defaultPointer(n) # ""
    /\ Get(out, "pointer").v =
         IF CleanedPointerOf(raw) = "" \/ pointerTooGeneric(CleanedPointerOf(raw))
         THEN defaultPointer(Get(out, "name").v)
         ELSE CleanedPointerOf(raw)

\* a pointer that cleaned to the empty string was replaced by the canonical
\* pointer of the returned name
C15_Witness ==
  /\ Sanitized
  /\ Get(raw, "pointer").t = "string"
  /\ Get(raw, "pointer").v # ""
  /\ CleanedPointerOf(raw) = ""
  /\ Get(out, "pointer").v = defaultPointer(Get(out, "name").v)
  /\ Len(Get(out, "pointer").v) >= 8

\* the names inferSourceFromText can return
InferableNames ==
  {"PIB", "Govt website", "International org", "The Hindu", "Indian Express", "Standard book"}

\* C26: sanitizeSource never returns the name "Other": a raw name that is
\* "Other", or is mapped to it, is always replaced by the inferred name, which
\* is never "Other", "NCERT" or "Tamil Nadu Board"; so "NCERT" and "Tamil Nadu
\* Board" come back only with the cleaned raw pointer, which is not generic, and
\* the pointer "General reference" is never returned.
C26_NeverOtherNeverGeneralReference ==
  Sanitized =>
    /\ Get(out, "name").v # "Other"
    /\ InferredName \in InferableNames
    /\ RawNameOf(raw) \notin (ALLOWED_SOURCES \ {"Other"}) => Get(out, "name").v = InferredName
    /\ Get(out, "name").v \in {"NCERT", "Tamil Nadu Board"} =>
         /\ Get(out, "name").v = RawNameOf(raw)
         /\ Get(out, "pointer").v = CleanedPointerOf(raw)
         /\ ~pointerTooGeneric(Get(out, "pointer").v)
    /\ Get(out, "pointer").v # "General reference"
    /\ ~Includes(ToLower(Get(out, "pointer").v), "general reference")

\* a source named "Other" whose pointer is "General Reference" came back under
\* an inferred name with that name's canonical pointer
C26_Witness ==
  /\ Sanitized
  /\ Get(raw, "name") = Str("Other")
  /\ Get(raw, "pointer") = Str("General Reference")
  /\ Get(out, "name").v = InferredName
  /\ Get(out, "pointer").v = defaultPointer(InferredName)

\* the keyword clusters in the order they are tried
ClusterOrder == <<"PIB", "Govt website", "International org", "The Hindu", "Indian Express">>

ClusterMatches(c, t) ==
  CASE c = "PIB" ->
         \E k \in {"pib", "press information bureau", "press release"} : Includes(t, k)
    [] c = "Govt website" -> \E k \in govtHints : Includes(t, k)
    [] c = "International org" -> \E k \in intlHints : Includes(t, k)
    [] c = "The Hindu" -> Includes(t, "the hindu")
    [] c = "Indian Express" -> Includes(t, "indian express")

FirstCluster(t) ==
  IF \A i \in 1..Len(ClusterOrder) : ~ClusterMatches(ClusterOrder[i], t) THEN "Standard book"
  ELSE ClusterOrder[CHOOSE i \in 1..Len(ClusterOrder) :
                      /\ ClusterMatches(ClusterOrder[i], t)
                      /\ \A j \in 1..(i - 1) : ~ClusterMatches(ClusterOrder[j], t)]

Reinferred ==
  RawNameOf(raw) \notin (ALLOWED_SOURCES \ {"Other"})
    \/ pointerTooGeneric(CleanedPointerOf(raw))

\* C16: when sanitizeSource re-infers the category, the name is that of the
\* first cluster, in the order PIB, Govt website, International org, The Hindu,
\* Indian Express, with a keyword in the lowered question and fact text, and
\* "Standard book", never "Other", when no cluster has one; the source
\* {name: "random", pointer: "chapter on topic"} under a question with
\* "Ministry of Finance notification" becomes Govt website with its canonical
\* pointer.
C16_FirstClusterDecides ==
  (Sanitized /\ Reinferred) =>
    /\ Get(out, "name").v = FirstCluster(ToLower(req.questionText \o " " \o req.factText))
    /\ Get(out, "name").v # "Other"
    /\ (raw = Source(Str("random"), Str("chapter on topic"))
        /\ Includes(req.questionText, "Ministry of Finance notification"))
         => out = Obj([name |-> Str("Govt website"),
                       pointer |-> Str("Govt website " \o Bullet \o " Official page/document"),
                       url |-> Undef])

\* the scenario's source, under texts that also hold keywords of the
\* international cluster, came out as Govt website
C16_Witness ==
  /\ Sanitized
  /\ raw = Source(Str("random"), Str("chapter on topic"))
  /\ Includes(req.questionText, "Ministry of Finance notification")
  /\ ClusterMatches("International org", ToLower(req.questionText \o " " \o req.factText))
  /\ Get(out, "name") = Str("Govt website")

-----------------------------------------------------------------------------
(* Properties of analysisLooksWeak and postProcess (specification SpecFn) *)

GenericBulletPhrases ==
  {"core concept", "key definition", "where upsc hides confusion",
   "what to recall vs what to deduce", "general reference"}

GenericFactPhrases ==
  {"matches the key concept", "other options contradict", "standard framing",
   "general reference", "directly matches the fact asked"}

HasPhrase(text, phrases) == \E p \in phrases : Includes(ToLower(text), p)

SeqToSet(q) == {q[i] : i \in 1..Len(q)}

\* a statement with at least 2 facts, none of them in generic phrasing
GoodStatementBlock(st) ==
  /\ Len(Get(st, "facts").v) >= 2
  /\ \A f \in SeqToSet(Get(st, "facts").v) : ~HasPhrase(Get(f, "fact").v, GenericFactPhrases)

\* a statement with at least 2 facts that are not in generic phrasing
TwoSpecificFacts(st) ==
  Cardinality({i \in 1..Len(Get(st, "facts").v) :
                 ~HasPhrase(Get(Get(st, "facts").v[i], "fact").v, GenericFactPhrases)}) >= 2

BulletsGeneric(a) == \E b \in BulletsOf(a) : HasPhrase(b.v, GenericBulletPhrases)

StrategyShort(a) ==
  \/ Len(Get(Get(a, "strategy"), "exam_strategy").v) < 2
  \/ Len(Get(Get(a, "strategy"), "logical_deduction").v) < 2
  \/ Len(Get(Get(Get(a, "strategy"), "difficulty"), "why").v) = 0
  \/ Len(Trim(Get(Get(Get(a, "strategy"), "ai_verdict"), "rationale").v)) < 10

\* C17, as claimed: analysisLooksWeak answers true exactly when the analysis has
\* fewer than 2 bullets, or a bullet in generic phrasing, or no statement, or no
\* statement with at least 2 facts that are not in generic phrasing, or fewer
\* than 2 exam-strategy items, or fewer than 2 logical-deduction items, or no
\* difficulty reason, or a rationale of fewer than 10 characters once trimmed.
C17_WeakIffTwoSpecificFactsMissing ==
  Processed =>
    (analysisLooksWeak(out) <=>
       \/ Len(Get(Get(out, "topic_brief"), "bullets").v) < 2
       \/ BulletsGeneric(out)
       \/ Len(StatementsOf(out)) = 0
       \/ \A st \in SeqToSet(StatementsOf(out)) : ~TwoSpecificFacts(st)
       \/ StrategyShort(out))

\* C17, amended: analysisLooksWeak answers true exactly when the analysis has
\* fewer than 2 bullets, or a bullet in generic phrasing, or no statement, or no
\* statement that has at least 2 facts and no fact in generic phrasing, or
\* fewer than 2 exam-strategy items, or fewer than 2 logical-deduction items, or
\* no difficulty reason, or a rationale of fewer than 10 characters once
\* trimmed.
C17_WeakIffSomeCriterion ==
  Processed =>
    (analysisLooksWeak(out) <=>
       \/ Len(Get(Get(out, "topic_brief"), "bullets").v) < 2
       \/ BulletsGeneric(out)
       \/ Len(StatementsOf(out)) = 0
       \/ \A st \in SeqToSet(StatementsOf(out)) : ~GoodStatementBlock(st)
       \/ StrategyShort(out))

\* an analysis rejected only because its one statement, which has two facts
\* that are not in generic phrasing, has a third that is
C17_Witness ==
  /\ phase = "enforced"
  /\ analysisLooksWeak(out)
  /\ Len(Get(Get(out, "topic_brief"), "bullets").v) >= 2
  /\ ~BulletsGeneric(out)
  /\ \E st \in SeqToSet(StatementsOf(out)) : TwoSpecificFacts(st)
  /\ \A st \in SeqToSet(StatementsOf(out)) : ~GoodStatementBlock(st)
  /\ ~StrategyShort(out)

\* C18: postProcess is idempotent: applied again, with the same request, to
\* what it returned for an analysis of normalizeQuestionAnalysisV1, it returns
\* the same analysis field for field.
C18_PostProcessIdempotent == phase = "enforced" => postProcess(out, req) = out

-----------------------------------------------------------------------------
\* Defaults of normalizeQuestionAnalysisV1 (specification SpecFn)

\* {} and every value that has none of the properties the normalizer reads:
\* null, undefined, a string, a number, a boolean
IsEmptyInput(x) ==
  x = EmptyObj \/ x.t \in {"null", "undefined", "string", "number", "boolean"}

LevelOf(a) == Get(Get(Get(a, "strategy"), "difficulty"), "level")
RecommendationOf(a) == Get(Get(Get(a, "strategy"), "ai_verdict"), "recommendation")

\* C20: normalizeQuestionAnalysisV1 of {}, of null or undefined, and of any
\* primitive that is not an object, returns title "Topic Brief", no bullets, no
\* statements, level "moderate", recommendation "attempt" and confidence 60.
C20_EmptyInputYieldsDefaults ==
  (phase = "normalized" /\ IsEmptyInput(raw)) =>
    /\ out # Throw
    /\ Get(out, "topic_brief") = Obj([title |-> Str("Topic Brief"), bullets |-> Arr(<<>>)])
    /\ Get(out, "statements") = Arr(<<>>)
    /\ LevelOf(out) = Str("moderate")
    /\ RecommendationOf(out) = Str("attempt")
    /\ ConfidenceOf(out) = Num(60)

\* the normalizer has run on a primitive and its result carries the defaults
C20_Witness ==
  /\ phase = "normalized"
  /\ raw = Num(12)
  /\ out # Throw
  /\ ConfidenceOf(out) = Num(60)
  /\ Get(Get(out, "topic_brief"), "title") = Str("Topic Brief")

-----------------------------------------------------------------------------
\* Properties of concurrent invocations (specification SpecPar)

RECURSIVE RunFrom(_, _, _)

\* what an invocation running alone does once the analysis of its i-th call is a
AloneAfter(inp, outcomes, i, a) ==
  IF a = Throw THEN Throw
  ELSE IF ~analysisLooksWeak(a) THEN a
  ELSE IF i < MaxAttempts THEN RunFrom(inp, outcomes, i + 1)
  ELSE fallbackAnalysis(inp)

\* an invocation running alone, from its i-th call on: its result, or Undef while
\* it awaits a call that has not settled
RunFrom(inp, outcomes, i) ==
  IF i > Len(outcomes) THEN Undef
  ELSE IF outcomes[i] = TransportFailure THEN TransportFailure
  ELSE AloneAfter(inp, outcomes, i, attemptAnalysis(outcomes[i], inp))

RunAlone(inp, outcomes) == RunFrom(inp, outcomes, 1)

Settled(st) == st.pc \in {"returned", "threw"}

\* C19: invocations of generateQuestionAnalysis that interleave share no mutable
\* state: at every moment each invocation has issued as many calls, and has the
\* result, that it would have had running alone on its own input with the same
\* outcomes of its own calls.
C19_EachResultAsIfAlone ==
  \A p \in DOMAIN procs :
    /\ procs[p].result = RunAlone(procs[p].input, procs[p].outcomes)
    /\ Settled(procs[p]) <=> procs[p].result # Undef
    /\ procs[p].pc = "awaiting" => procs[p].calls = Len(procs[p].outcomes) + 1
    /\ procs[p].calls <= MaxAttempts

\* two invocations on different inputs, each with a rejected first attempt: one
\* has returned the accepted analysis of its second attempt, with its own
\* official answer, while the other is suspended at its second call
C19_Witness ==
  \E p, q \in DOMAIN procs :
    /\ procs[p].input # procs[q].input
    /\ procs[p].pc = "returned" /\ procs[p].calls = 2
    /\ Get(procs[p].result, "correct_answer") = Str(procs[p].input.officialAnswer)
    /\ analysisLooksWeak(procs[p].result) = FALSE
    /\ procs[q].pc = "awaiting" /\ procs[q].attempt = 2

-----------------------------------------------------------------------------
\* Enumerated fields, topic_brief shapes and facts (specification SpecFn)

\* x when x is a string and one of the allowed literals, else the default
AcceptOrDefault(x, allowed, default) ==
  IF x.t = "string" /\ x.v \in allowed THEN x ELSE Str(default)

\* raw.strategy, raw.strategy.difficulty.level, raw.strategy.ai_verdict.recommendation
RawStrategy == Get(Coalesce(raw, EmptyObj), "strategy")
RawLevel == Get(Get(RawStrategy, "difficulty"), "level")
RawRecommendation == Get(Get(RawStrategy, "ai_verdict"), "recommendation")

\* C21: after normalizeQuestionAnalysisV1 each statement's verdict, the
\* difficulty level and the recommendation equal the raw value when that is
\* exactly one of the allowed literals, and are otherwise (wrong type, other
\* string, other letter case, absent) unknown, moderate and attempt.
C21_EnumeratedAcceptOrDefault ==
  (phase = "normalized" /\ out # Throw) =>
    /\ Len(StatementsOf(out)) = Len(RawStatements)
    /\ \A i \in 1..Len(RawStatements) :
         Get(StatementsOf(out)[i], "verdict") =
           AcceptOrDefault(Get(RawStatements[i], "verdict"),
                           {"correct", "incorrect", "unknown"}, "unknown")
    /\ LevelOf(out) = AcceptOrDefault(RawLevel, {"easy", "moderate", "hard"}, "moderate")
    /\ RecommendationOf(out) = AcceptOrDefault(RawRecommendation, {"skip", "attempt"}, "attempt")

\* a verdict in another letter case came out as unknown
C21_Witness ==
  /\ phase = "normalized"
  /\ out # Throw
  /\ Len(RawStatements) = 1
  /\ Get(RawStatements[1], "verdict") = Str("Correct")
  /\ Get(StatementsOf(out)[1], "verdict") = Str("unknown")

RawTopicBrief == Get(Coalesce(raw, EmptyObj), "topic_brief")

TopicBriefOf(a) == Get(a, "topic_brief")

IsNonEmptyString(x) == x.t = "string" /\ x.v # ""

\* the non-empty strings of a raw value that is an array, in order; none otherwise
NonEmptyStrings(x) == IF x.t = "array" THEN SelectSeq(x.v, IsNonEmptyString) ELSE <<>>

\* title and bullets of the topic brief for the shapes on which C22 and its
\* amended form agree: an object, an array, anything that is not a string
ShapedTopicBrief(tb) ==
  IF tb.t = "object"
  THEN Obj([title |-> IF Get(tb, "title").t = "string" THEN Get(tb, "title")
                      ELSE Str("Topic Brief"),
            bullets |-> Arr(NonEmptyStrings(Get(tb, "bullets")))])
  ELSE Obj([title |-> Str("Topic Brief"), bullets |-> Arr(NonEmptyStrings(tb))])

\* C22, as claimed: normalizeQuestionAnalysisV1 takes title and bullets from a
\* topic_brief object, makes the non-empty strings of an array the bullets,
\* makes a bare string the single bullet, and gives any other shape the
\* placeholder title and no bullets.
C22_TopicBriefShapes ==
  (phase = "normalized" /\ out # Throw) =>
    TopicBriefOf(out) =
      IF RawTopicBrief.t = "string"
      THEN Obj([title |-> Str("Topic Brief"), bullets |-> Arr(<<RawTopicBrief>>)])
      ELSE ShapedTopicBrief(RawTopicBrief)

\* C22, amended: as claimed, except that only a non-empty bare string becomes
\* the single bullet; the empty string yields no bullets.
C22_TopicBriefShapesNonEmptyString ==
  (phase = "normalized" /\ out # Throw) =>
    TopicBriefOf(out) =
      IF RawTopicBrief.t = "string"
      THEN Obj([title |-> Str("Topic Brief"),
                bullets |-> Arr(SelectSeq(<<RawTopicBrief>>, IsNonEmptyString))])
      ELSE ShapedTopicBrief(RawTopicBrief)

\* a bare string became the single bullet under the placeholder title
C22_Witness ==
  /\ phase = "normalized"
  /\ RawTopicBrief = Str("A single bullet")
  /\ TopicBriefOf(out) =
       Obj([title |-> Str("Topic Brief"), bullets |-> Arr(<<Str("A single bullet")>>)])

\* the facts of a raw statement and of a statement of an analysis
RawFactsOf(s) == asArray(Get(s, "facts"))

StatementFacts(s) == Get(s, "facts").v

\* the text a raw fact contributes: its fact trimmed, "" when it is missing or
\* not a string
TextOf(f) == IF Get(f, "fact").t = "string" THEN Trim(Get(f, "fact").v) ELSE ""

NonEmptyText(s) == s # ""

\* the texts of the raw facts that have one, in their order
KeptTexts(facts) == SelectSeq([i \in 1..Len(facts) |-> TextOf(facts[i])], NonEmptyText)

\* the fact texts of a statement of an analysis, in order
FactTexts(s) == [i \in 1..Len(StatementFacts(s)) |-> Get(StatementFacts(s)[i], "fact").v]

ExampleAbsentOrNonEmpty(f) ==
  Get(f, "example") = Undef \/ (Get(f, "example").t = "string" /\ Get(f, "example").v # "")

\* C23: after normalizeQuestionAnalysisV1, and after postProcess, every raw
\* statement is still there; its facts are exactly the raw facts whose text is a
\* string that is not empty once trimmed, in their raw order, the others being
\* dropped; and every fact's example is absent or a non-empty string.
C23_EmptyFactsDroppedOrderKept ==
  (Processed /\ Len(RawStatements) > 0) =>
    /\ Len(StatementsOf(out)) = Len(RawStatements)
    /\ \A i \in 1..Len(RawStatements) :
         /\ FactTexts(StatementsOf(out)[i]) = KeptTexts(RawFactsOf(RawStatements[i]))
         /\ \A j \in 1..Len(StatementFacts(StatementsOf(out)[i])) :
              ExampleAbsentOrNonEmpty(StatementFacts(StatementsOf(out)[i])[j])

\* of three raw facts the blank one in the middle was dropped and the other two
\* came out in their order, after postProcess
C23_Witness ==
  /\ phase = "enforced"
  /\ Len(RawStatements) = 1
  /\ RawFactsOf(RawStatements[1]) = <<FactGoodB, FactBlank, FactGoodA>>
  /\ FactTexts(StatementsOf(out)[1]) =
       <<"The President appoints members", "Article 280 creates it">>

-----------------------------------------------------------------------------
\* Further properties of generateQuestionAnalysis (specification Spec)

PlaceholderStatement == Obj([id |-> Num(1), verdict |-> Str("unknown"), facts |-> Arr(<<>>)])

\* the statements of what the response of attempt k parsed to
ParsedStatements(k) ==
  asArray(Get(Coalesce(safeParseJSON(contentOf(responses[k])), EmptyObj), "statements"))

\* C24: every analysis postProcess returned inside generateQuestionAnalysis,
\* which is what the quality gate is given, and every analysis the function
\* returns, has at least one statement; where the attempt had no statements it
\* has exactly the placeholder statement {id 1, verdict unknown, no facts}.
C24_AtLeastOneStatement ==
  /\ \A k \in 1..Len(analyses) :
       analyses[k] # Throw =>
         /\ Len(StatementsOf(analyses[k])) >= 1
         /\ ParsedStatements(k) = <<>> => StatementsOf(analyses[k]) = <<PlaceholderStatement>>
  /\ pc = "returned" => Len(StatementsOf(result)) >= 1

\* a first attempt without statements reached the gate with the placeholder
\* statement and was rejected; the second attempt was accepted and returned
C24_Witness ==
  /\ pc = "returned"
  /\ Len(analyses) = 2
  /\ ParsedStatements(1) = <<>>
  /\ StatementsOf(analyses[1]) = <<PlaceholderStatement>>
  /\ verdicts = <<TRUE, FALSE>>
  /\ result = analyses[2]

\* the value returned is the analysis of an attempt the gate accepted
FromAcceptedAttempt ==
  /\ verdicts # <<>>
  /\ ~Last(verdicts)
  /\ result = Last(analyses)
  /\ ~LogHas("fallback")

\* C25 for fb, the fallback after postProcess for the request of the invocation
FallbackWeakAndLast(fb) ==
  /\ analysisLooksWeak(fb)
  /\ Len(StatementsOf(fb)) = 1
  /\ Len(StatementFacts(StatementsOf(fb)[1])) < 2
  /\ pc = "returned" =>
       /\ ~analysisLooksWeak(result) <=> FromAcceptedAttempt
       /\ LogHas("fallback") =>
            /\ result = fb
            /\ verdicts = <<TRUE, TRUE>>
            /\ calls = 2

\* C25: the fallback after postProcess is itself weak for the gate, its only
\* statement having fewer than two facts; so a returned value passes the gate
\* exactly when it is the analysis of an accepted attempt, and the fallback is
\* returned only after exactly MaxAttempts = 2 rejected attempts.
C25_FallbackIsWeakReturnedAfterTwo == FallbackWeakAndLast(fallbackAnalysis(input))

\* the fallback was returned after two rejections and the gate would reject it
C25_Witness ==
  /\ pc = "returned"
  /\ LogHas("fallback")
  /\ verdicts = <<TRUE, TRUE>>
  /\ result = fallbackAnalysis(input)
  /\ analysisLooksWeak(result)

\* the names of the sources of the facts of an analysis
SourceNamesOf(a) == {Get(Get(f, "source"), "name").v : f \in FactsOf(a)}

\* options that no drawn request has
OtherOptions == [A |-> "Ministry note", B |-> "PIB release", C |-> "UN report", D |-> "None"]

\* C27: the fallback generateQuestionAnalysis returns depends on the request's
\* officialAnswer only: it equals the fallback of every request with the same
\* official answer, whatever the question text, the options and the rejected
\* responses, and its source stays "Standard book" instead of being inferred
\* from the question text.
C27_FallbackDependsOnAnswerOnly ==
  (pc = "returned" /\ LogHas("fallback")) =>
    /\ \A r \in Inputs : r.officialAnswer = input.officialAnswer => result = fallbackAnalysis(r)
    /\ result = fallbackAnalysis([input EXCEPT !.options = OtherOptions])
    /\ SourceNamesOf(result) = {"Standard book"}

\* the fallback was returned for a question text from which a re-inference
\* would have made the source a government website
C27_Witness ==
  /\ pc = "returned"
  /\ LogHas("fallback")
  /\ inferSourceFromText(input.questionText, "") = "Govt website"
  /\ SourceNamesOf(result) = {"Standard book"}

-----------------------------------------------------------------------------
(* GET /api/analysis (app/api/analysis/route.ts, the revision of lines 1-196).
   The handler suspends at each await; an action is the code one request runs
   between two suspensions, with the database operation it awaited taking
   effect at the start of the action.  All requests are by one user.  Every
   call the handler awaits can fail: a failing getUser is answered 401, and
   the handler reads the data of each table query and of the upsert but never
   its error, so a failing read looks to it like a missing row.  The rows of
   other questions of the user are kept as a count.  Two other pieces of code
   write the tables the handler reads: the payment verification route sets
   is_pro, and the practice page (app/practice/page.tsx) has recordAnalysis
   upsert the analysis of each ok response it received; each is an action at
   the step its upsert takes effect.  The sources keep earlier revisions of
   both files, which are not part of the program the model follows: route.ts
   repeats the module after line 196 with an earlier handler
   (DAILY_FREE_AFTER), and a module cannot declare its imports and GET twice;
   src/unnamed/part_000 holds two earlier texts of app/practice/page.tsx, which
   fetch /test-ai where the page of app/practice/ fetches /api/analysis.  The
   model follows the GET of lines 30-196, the later text (line 17 has the daily
   allowance commented out), which the page of app/practice/ calls.  The handler passes analyses on without reading them, so the
   state holds an analysis as a reference to the run of
   generateQuestionAnalysis that produced it; ValueOf and NormalizedValue give
   the analysis itself and what normalizeQuestionAnalysisV1 makes of it. *)

\* line 16
LIFETIME_FREE == 25

MaxHandlers == 2

Handlers == 1..MaxHandlers

\* line 37: idParam ? Number(idParam) : NaN
questionIdOf(idParam) == IF Truthy(idParam) THEN NumberOfString(idParam.v) ELSE NaN

\* line 39
invalidQuestionId(questionId) == ~IsFinite(questionId) \/ ~NumLess(Num(0), questionId)

\* line 36: only "1" triggers regeneration
refreshOf(refreshParam) == refreshParam = Str("1")

\* lines 44-45: the bearer token, or null
tokenOf(authorization) ==
  IF StartsWith(OrElse(authorization, Str("")).v, "Bearer ")
  THEN Str(Slice(OrElse(authorization, Str("")).v, 8, Len(OrElse(authorization, Str("")).v)))
  ELSE Null

\* lines 25-28; s.toUpperCase() is one of A..D exactly when s is that letter in
\* either case
toOfficialAnswer(x) ==
  CASE ToLower(Trim(StringOf(Coalesce(x, Str(""))))) = "a" -> Str("A")
    [] ToLower(Trim(StringOf(Coalesce(x, Str(""))))) = "b" -> Str("B")
    [] ToLower(Trim(StringOf(Coalesce(x, Str(""))))) = "c" -> Str("C")
    [] ToLower(Trim(StringOf(Coalesce(x, Str(""))))) = "d" -> Str("D")
    [] OTHER -> Null

\* NextResponse.json(body, {status})
Json(status, body) == [status |-> status, body |-> body]

ErrorResponse(status, error) == Json(status, [error |-> error])

NoFields == [k \in {} |-> Undef]

\* the user's valid bearer token
ValidTokens == {"tok"}

QuestionRow(text, correct) ==
  [question_text |-> Str(text), option_a |-> Str("I only"), option_b |-> Str("II only"),
   option_c |-> Str("Both"), option_d |-> Null, correct_option |-> correct]

\* the questions table: question 4 has no official answer, question 5 is missing
QuestionsTable ==
  [q \in 1..5 |->
     CASE q = 1 -> QuestionRow("Which body is set up under Article 280?", Str("b"))
       [] q = 2 -> QuestionRow("Ministry of Finance notification on GST", Str(" C "))
       [] q = 3 -> QuestionRow("Consider the following pairs", Str("A"))
       [] q = 4 -> QuestionRow("Consider the following pairs", Str("E"))
       [] q = 5 -> Null]

\* .eq("id", questionId).single(): the row, or null
questionOf(questionId) ==
  IF IsInteger(questionId) /\ questionId.v \in DOMAIN QuestionsTable THEN QuestionsTable[questionId.v]
  ELSE Null

\* lines 146-155: the GenerateInput built from the question row
generateInputOf(question, officialAnswer) ==
  [questionText |-> Coalesce(question.question_text, Str("")).v,
   options |-> [A |-> Coalesce(question.option_a, Str("")).v,
                B |-> Coalesce(question.option_b, Str("")).v,
                C |-> Coalesce(question.option_c, Str("")).v,
                D |-> Coalesce(question.option_d, Str("")).v],
   officialAnswer |-> officialAnswer.v]

\* the questions whose question_analysis row the model keeps in full
Tracked == 1..4

\* a question_analysis row
AnalysisRow(a, at) == [analysis |-> a, updated_at |-> at]

\* what the calls of one generateQuestionAnalysis invocation settle with, for
\* each run drawn
GenerateRuns ==
  <<<<Response(JsonText(GoodRaw))>>,
    <<Response(Str("not json")), Response(Str("not json"))>>,
    <<TransportFailure>>,
    <<Response(Str("not json")),
      Response(JsonText(Analysis(Str("A"), GoodTopicBrief,
                                 Arr(<<Statement(Num(1), Str("correct"),
                                                 <<FactGoodA, FactToStringName>>)>>),
                                 GoodStrategy)))>>>>

\* the runs the requests draw from: the first call accepted, the transport
\* failing, a TypeError thrown
SettledRuns == {1, 3, 4}

\* the questions that have a row and an official answer
Answerable ==
  {n \in DOMAIN QuestionsTable :
     QuestionsTable[n] # Null /\ toOfficialAnswer(QuestionsTable[n].correct_option) # Null}

\* what generateQuestionAnalysis settles with for an answerable question and a
\* run: an analysis, or the error thrown
Generated ==
  [q \in Answerable, run \in DOMAIN GenerateRuns |->
     RunAlone(generateInputOf(QuestionsTable[q],
                              toOfficialAnswer(QuestionsTable[q].correct_option)),
              GenerateRuns[run])]

\* what a run settled with, normalizeQuestionAnalysisV1 of it, and of that (an
\* error stays the error); then whether the first application changed the
\* analysis, and whether the second changed it again
VersionsOf(g, n, m) == <<g, n, m, n # g, m # n>>

VersionsAfter(g, n) ==
  VersionsOf(g, n, IF n.t = "throw" THEN n ELSE normalizeQuestionAnalysisV1(n))

VersionsFrom(g) ==
  VersionsAfter(g, IF g.t = "throw" THEN g ELSE normalizeQuestionAnalysisV1(g))

Versions ==
  [q \in Answerable, run \in DOMAIN GenerateRuns |-> VersionsFrom(Generated[q, run])]

\* the reference to the analysis of a run; times counts the applications of
\* normalizeQuestionAnalysisV1 that changed it since
Ref(q, run) == [question |-> q, run |-> run, times |-> 0]

\* the analysis referred to
ValueOf(ref) == Versions[ref.question, ref.run][IF ref.times < 2 THEN ref.times + 1 ELSE 3]

\* normalizeQuestionAnalysisV1 of the analysis referred to (a third application
\* changes none of these analyses)
NormalizedValue(ref) == Versions[ref.question, ref.run][IF ref.times = 0 THEN 2 ELSE 3]

\* the reference to that value: the same reference when normalizing changes
\* nothing
Normalized(ref) ==
  IF ref.times < 2 /\ Versions[ref.question, ref.run][ref.times + 4]
  THEN [ref EXCEPT !.times = @ + 1] ELSE ref

\* lines 89-96 and 174-181: the stored analysis normalized, or the response of the
\* outer catch (lines 189-195) when normalizing throws
cachedResponse(existing, extra) ==
  IF NormalizedValue(existing.analysis) = Throw
  THEN ErrorResponse(500, "Server error")
  ELSE Json(200, extra @@ [ok |-> TRUE, cached |-> TRUE,
                           analysis |-> Normalized(existing.analysis),
                           analysisUpdatedAt |-> Coalesce(existing.updated_at, Null)])

\* the analysis an earlier request stored for question 1: the fallback of a run
\* with two rejected attempts
StoredAnalysis == Ref(1, 2)

\* the URL parameters and the authorization header of a request
Request(idParam, refreshParam, authorization) ==
  [questionId |-> idParam, refresh |-> refreshParam, authorization |-> authorization]

RouteRequests ==
  {Request(Str("1"), Str("1"), Str("Bearer tok")),
   Request(Str("1"), Str("true"), Str("Bearer tok")),
   Request(Str("2"), Null, Str("Bearer tok")),
   Request(Str("3"), Str("1"), Str("Bearer tok")),
   Request(Str("1.5"), Null, Str("Bearer tok")),
   Request(Str("abc"), Null, Str("Bearer tok")),
   Request(Str("2"), Null, Null),
   Request(Str("2"), Null, Str("Bearer stale"))}

\* the locals of a handler that has not received its request; stored is the
\* row the table held for (user, question) when the handler queried it, which
\* is existing unless the query failed; generatorCalls, countQueries and
\* upserts count what the request has issued, and threw tells that its call of
\* generateQuestionAnalysis threw
IdleHandler ==
  [pc |-> "idle", request |-> Null, questionId |-> NaN, token |-> Null, isPro |-> FALSE,
   existing |-> Null, stored |-> Null, analysis |-> Undef, response |-> Null,
   generatorCalls |-> 0, countQueries |-> 0, upserts |-> 0, threw |-> FALSE]

\* the number of question_analysis rows of the user
RowCount(d) == d.others + Cardinality({q \in Tracked : d.rows[q] # Null})

\* the user is not Pro and has 24 rows, one of them for question 1; keySet
\* tells whether process.env.OPENAI_API_KEY is set
InitRoute ==
  /\ db \in {[pro |-> FALSE, others |-> LIFETIME_FREE - 2, keySet |-> k,
              rows |-> [q \in Tracked |->
                          IF q = 1 THEN AnalysisRow(StoredAnalysis, Str("t0")) ELSE Null]] :
               k \in BOOLEAN}
  /\ handlers = [h \in Handlers |-> IdleHandler]
  /\ GenerateIdle
  /\ HarnessIdle
  /\ Alone

Answer(h, resp) == [handlers EXCEPT ![h].pc = "done", ![h].response = resp]

\* lines 33-52: the request arrives and is given the first handler not yet used;
\* up to the call of auth.getUser
Begin(h, r) ==
  /\ handlers[h].pc = "idle"
  /\ \A g \in 1..(h - 1) : handlers[g].pc # "idle"
  /\ handlers' =
       IF invalidQuestionId(questionIdOf(r.questionId))
       THEN [handlers EXCEPT ![h].pc = "done", ![h].request = r,
                             ![h].response = ErrorResponse(400, "Invalid questionId")]
       ELSE IF ~Truthy(tokenOf(r.authorization))
       THEN [handlers EXCEPT ![h].pc = "done", ![h].request = r,
                             ![h].response = ErrorResponse(401, "Missing auth token")]
       ELSE [handlers EXCEPT ![h].pc = "auth", ![h].request = r,
                             ![h].questionId = questionIdOf(r.questionId),
                             ![h].token = tokenOf(r.authorization)]
  /\ UNCHANGED <<input, pc, attempt, calls, responses, analyses, verdicts, result, log,
                 raw, req, out, phase, procs, db>>

\* lines 51-70: auth.getUser settles, with the user of a valid token or, when
\* the token is not valid or the auth service failed, with an error; up to the
\* query of the profile
GetUser(h, succeeds) ==
  /\ handlers[h].pc = "auth"
  /\ handlers' =
       IF ~succeeds \/ handlers[h].token.v \notin ValidTokens
       THEN Answer(h, ErrorResponse(401, "Unauthorized"))
       ELSE [handlers EXCEPT ![h].pc = "profile"]
  /\ UNCHANGED <<input, pc, attempt, calls, responses, analyses, verdicts, result, log,
                 raw, req, out, phase, procs, db>>

\* lines 71-79: the query of the profile settles, with the row or, when it
\* failed, with data: null (its error is not read), and isPro is !!prof?.is_pro;
\* up to the query of the existing row
ReadProfile(h, succeeds) ==
  /\ handlers[h].pc = "profile"
  /\ handlers' = [handlers EXCEPT ![h].pc = "existing", ![h].isPro = succeeds /\ db.pro]
  /\ UNCHANGED <<input, pc, attempt, calls, responses, analyses, verdicts, result, log,
                 raw, req, out, phase, procs, db>>

\* the row of the user for a question: tracked questions only
rowOf(d, questionId) ==
  IF IsInteger(questionId) /\ questionId.v \in Tracked THEN d.rows[questionId.v] ELSE Null

\* lines 87-106 given the row read: the cached answer, or on to the count query
\* or the question query
afterExisting(st, existing) ==
  IF ~refreshOf(st.request.refresh) /\ existing # Null
  THEN [st EXCEPT !.pc = "done", !.existing = existing,
                  !.response = cachedResponse(existing, NoFields)]
  ELSE IF ~st.isPro /\ existing = Null
  THEN [st EXCEPT !.pc = "count", !.existing = existing, !.countQueries = @ + 1]
  ELSE [st EXCEPT !.pc = "question", !.existing = existing]

\* lines 80-106: the query of the existing row settles, with the row of the
\* table or, when it failed, with data: null (its error is not read)
ReadExisting(h, succeeds) ==
  /\ handlers[h].pc = "existing"
  /\ handlers' =
       [handlers EXCEPT
          ![h] = afterExisting([@ EXCEPT !.stored = rowOf(db, handlers[h].questionId)],
                               IF succeeds THEN rowOf(db, handlers[h].questionId)
                               ELSE Null)]
  /\ UNCHANGED <<input, pc, attempt, calls, responses, analyses, verdicts, result, log,
                 raw, req, out, phase, procs, db>>

\* line 110
overLimit(lifetime) == lifetime >= LIFETIME_FREE

\* line 108
lifetimeOf(lifetimeCount) == Coalesce(lifetimeCount, Num(0)).v

\* lines 103-123: the count query settles, with the number of rows or, when it
\* failed, with a count of null; 402, or on to the question query
CountRows(h, succeeds) ==
  /\ handlers[h].pc = "count"
  /\ handlers' =
       IF overLimit(lifetimeOf(IF succeeds THEN Num(RowCount(db)) ELSE Null))
       THEN Answer(h, Json(402, [error |-> "LIMIT_REACHED", isPro |-> FALSE]))
       ELSE [handlers EXCEPT ![h].pc = "question"]
  /\ UNCHANGED <<input, pc, attempt, calls, responses, analyses, verdicts, result, log,
                 raw, req, out, phase, procs, db>>

\* lines 125-155 given the question row and whether OPENAI_API_KEY is set: an
\* error response, or the call of generateQuestionAnalysis
afterQuestion(st, question, keySet) ==
  IF question = Null
  THEN [st EXCEPT !.pc = "done", !.response = ErrorResponse(404, "Question not found")]
  ELSE IF toOfficialAnswer(question.correct_option) = Null
  THEN [st EXCEPT !.pc = "done", !.response = ErrorResponse(400, "Correct option invalid")]
  ELSE IF ~keySet
  THEN [st EXCEPT !.pc = "done", !.response = ErrorResponse(500, "OPENAI_API_KEY missing")]
  ELSE [st EXCEPT !.pc = "generate", !.generatorCalls = @ + 1]

\* lines 117-155: the query of the question settles, with the row or, when it
\* failed, with data: null (its error is not read)
ReadQuestion(h, succeeds) ==
  /\ handlers[h].pc = "question"
  /\ handlers' =
       [handlers EXCEPT
          ![h] = afterQuestion(@, IF succeeds THEN questionOf(@.questionId) ELSE Null,
                               db.keySet)]
  /\ UNCHANGED <<input, pc, attempt, calls, responses, analyses, verdicts, result, log,
                 raw, req, out, phase, procs, db>>

\* lines 171-188: the catch of a failed generation
generationFailed(st, details) ==
  IF st.existing # Null
  THEN [st EXCEPT !.pc = "done", !.threw = TRUE,
                  !.response =
                    cachedResponse(st.existing,
                      [warning |-> "Regeneration failed; showing last saved analysis"])]
  ELSE [st EXCEPT !.pc = "done", !.threw = TRUE,
                  !.response = Json(500, [error |-> "Failed to generate analysis",
                                          details |-> details])]

\* lines 145-188 given the run of generateQuestionAnalysis and what it settled
\* with: the upsert is issued, or the catch runs
afterGenerate(st, ref, a) ==
  IF a = Throw THEN generationFailed(st, "Cannot convert object to primitive value")
  ELSE IF a = TransportFailure THEN generationFailed(st, "Connection error.")
  ELSE [st EXCEPT !.pc = "upsert", !.analysis = ref]

\* lines 145-188: generateQuestionAnalysis settles
GenerateSettles(h, run) ==
  /\ handlers[h].pc = "generate"
  /\ handlers' =
       [handlers EXCEPT ![h] = afterGenerate(@, Ref(@.questionId.v, run),
                                             Generated[@.questionId.v, run])]
  /\ UNCHANGED <<input, pc, attempt, calls, responses, analyses, verdicts, result, log,
                 raw, req, out, phase, procs, db>>

\* lines 157-170: the upsert on (user_id, question_id) settles, having taken
\* effect or failed, and the handler answers
Upsert(h, succeeds) ==
  /\ handlers[h].pc = "upsert"
  /\ db' = IF succeeds
           THEN [db EXCEPT !.rows[handlers[h].questionId.v] =
                             AnalysisRow(handlers[h].analysis, Str("t1"))]
           ELSE db
  /\ handlers' =
       [handlers EXCEPT ![h].pc = "done", ![h].upserts = @ + 1,
                        ![h].response =
                          Json(200, [ok |-> TRUE, cached |-> FALSE,
                                     quotaSpent |-> ~handlers[h].isPro
                                                    /\ handlers[h].existing = Null,
                                     analysis |-> handlers[h].analysis])]
  /\ UNCHANGED <<input, pc, attempt, calls, responses, analyses, verdicts, result, log,
                 raw, req, out, phase, procs>>

\* POST /api/payments/razorpay/verify (src/unnamed/part_001 lines 15-127) with a
\* valid token, payment fields and signature: the upsert of lines 101-112 makes
\* the user Pro
VerifyPayment ==
  /\ ~db.pro
  /\ db' = [db EXCEPT !.pro = TRUE]
  /\ UNCHANGED <<input, pc, attempt, calls, responses, analyses, verdicts, result, log,
                 raw, req, out, phase, procs, handlers>>

\* the practice page (app/practice/page.tsx lines 653-706) after its request,
\* which has refresh=1, was answered ok: it normalizes payload.analysis, and
\* the upsert of recordAnalysis (lines 286-307) on (user_id, question_id) takes
\* effect, with the time of the call
RecordAnalysis(h) ==
  /\ handlers[h].pc = "done"
  /\ handlers[h].request.refresh = Str("1")
  /\ handlers[h].response.status = 200
  /\ db' = [db EXCEPT !.rows[handlers[h].questionId.v] =
                        AnalysisRow(Normalized(handlers[h].response.body.analysis),
                                    Str("t2"))]
  /\ handlers' = [handlers EXCEPT ![h].pc = "recorded"]
  /\ UNCHANGED <<input, pc, attempt, calls, responses, analyses, verdicts, result, log,
                 raw, req, out, phase, procs>>

NextRoute ==
  \/ \E h \in Handlers :
       \/ \E r \in RouteRequests : Begin(h, r)
       \/ \E succeeds \in BOOLEAN : GetUser(h, succeeds)
       \/ \E succeeds \in BOOLEAN : ReadProfile(h, succeeds)
       \/ \E succeeds \in BOOLEAN : ReadExisting(h, succeeds)
       \/ \E succeeds \in BOOLEAN : CountRows(h, succeeds)
       \/ \E succeeds \in BOOLEAN : ReadQuestion(h, succeeds)
       \/ \E run \in SettledRuns : GenerateSettles(h, run)
       \/ \E succeeds \in BOOLEAN : Upsert(h, succeeds)
       \/ RecordAnalysis(h)
  \/ VerifyPayment

SpecRoute == InitRoute /\ [][NextRoute]_vars

-----------------------------------------------------------------------------
\* Properties of GET /api/analysis (specification SpecRoute)

\* the request of handler h has been answered
Done(h) == handlers[h].pc \in {"done", "recorded"}

\* C28: a user who is not Pro never has more than LIFETIME_FREE = 25 stored
\* analyses, however the user's requests interleave; and a request answered
\* 402 LIMIT_REACHED has called the generator and upserted nothing.
C28_FreeUserNeverOverLimit ==
  /\ ~db.pro => RowCount(db) <= LIFETIME_FREE
  /\ \A h \in Handlers :
       (Done(h) /\ handlers[h].response.status = 402) =>
         handlers[h].generatorCalls = 0 /\ handlers[h].upserts = 0

\* C29: a request whose refresh parameter is not exactly "1", for a question of
\* which the table held a stored analysis of the user when the request queried
\* it, is answered 200 with cached: true and the stored analysis normalized, and
\* has made no generator call, no count query and no upsert.
C29_CachedAnswerHasNoEffect ==
  \A h \in Handlers :
    (Done(h) /\ handlers[h].stored # Null /\ handlers[h].request.refresh # Str("1")) =>
      /\ handlers[h].response.status = 200
      /\ handlers[h].response.body =
           [ok |-> TRUE, cached |-> TRUE,
            analysis |-> Normalized(handlers[h].stored.analysis),
            analysisUpdatedAt |-> handlers[h].stored.updated_at]
      /\ handlers[h].generatorCalls = 0
      /\ handlers[h].countQueries = 0
      /\ handlers[h].upserts = 0

\* no request but h and no call of recordAnalysis has upserted the row of h's
\* question
NoOtherUpsert(h) ==
  /\ handlers[h].pc # "recorded"
  /\ \A g \in Handlers \ {h} :
       \/ handlers[g].upserts = 0 /\ handlers[g].pc # "recorded"
       \/ handlers[g].questionId # handlers[h].questionId

\* C30: a request whose generation threw has upserted nothing, so the stored
\* row is as it was when the request queried it unless another request wrote
\* it; it answers with the stored analysis, cached: true and a warning, when
\* the table held one, and with status 500 otherwise.
C30_FailedGenerationKeepsStored ==
  \A h \in Handlers :
    handlers[h].threw =>
      /\ Done(h)
      /\ handlers[h].upserts = 0
      /\ NoOtherUpsert(h) => rowOf(db, handlers[h].questionId) = handlers[h].stored
      /\ IF handlers[h].stored # Null
         THEN /\ handlers[h].response.status = 200
              /\ handlers[h].response.body =
                   [ok |-> TRUE, cached |-> TRUE,
                    analysis |-> Normalized(handlers[h].stored.analysis),
                    analysisUpdatedAt |-> handlers[h].stored.updated_at,
                    warning |-> "Regeneration failed; showing last saved analysis"]
         ELSE /\ handlers[h].response.status = 500
              /\ handlers[h].response.body.error = "Failed to generate analysis"

====
